---- MODULE Spec2Model ----
(***************************************************************************)
(* A model of the navigation-and-edit core of the paper editor: the view   *)
(* (document buffer), the marks and the adjustment that keeps them valid   *)
(* across edits, the line and pattern filters, and the mode controller.    *)
(*                                                                         *)
(* Text is a sequence of one-character strings.  A usize that the code     *)
(* computes through `(x as isize + d) as usize` is kept as the signed      *)
(* integer it encodes (the casts wrap, never trap, and every later use in  *)
(* the modelled code casts it back to isize).                              *)
(***************************************************************************)
EXTENDS Integers, Sequences, FiniteSets, TLC

VARIABLES
    mode,       \* Controller.mode
    sketch,     \* Paper.sketch
    view,       \* Paper.view: [data, origin, line_count]
    noises,     \* Paper.noises
    signals,    \* Paper.signals
    marks,      \* Paper.marks
    status,     \* "running", "quit" (Notice::Quit) or "panicked" (a Rust panic)
    edits,      \* number of update_view calls the run may still make
                \* (of set_marks calls, where set_marks is called on its own)
    input,      \* the input the run loop processed last ("" before the first),
                \* or the name of the Paper method called on its own
    hist,       \* the last update_view call: its key, the state before it, its class,
                \* the Edits it applied to the user interface;
                \* and the text of the file, where change_view is called on its own,
                \* or the movement, where scroll is
    terminal,   \* ui::Terminal, with the keyboard events pending, the file argument
                \* init was given and what input has returned so far
    change_filter
                \* io::config::ChangeFilter, with the config file, the call of
                \* can_consume or consume in progress and the settings produced

vars == <<mode, sketch, view, noises, signals, marks, status, edits, input, hist,
          terminal, change_filter>>

-----------------------------------------------------------------------------
(* Bounds of the model *)

\* Most events of the config file (SpecConfig).
MaxConfigEvents == 3
\* Most calls of can_consume and consume (SpecConfig).
MaxConsumerCalls == 2
\* Most keyboard events pending at once (SpecTerminal).
MaxKeyEvents == 2
\* Most calls of Terminal::input (SpecTerminal).
MaxInputCalls == 3
\* Longest document read in a whole session (Spec).
MaxSessionDocLen == 2
\* Most update_view calls (Edit-mode keystrokes) in a whole session (Spec).
MaxSessionEdits == 1
\* Most filter tokens joined by the separator in one sketch.
MaxTokens == 2
\* Most Sections the filter working set may grow to.
MaxSections == 2
\* Longest document read before an edit (SpecEdit).
MaxDocLen == 4
\* Most update_view calls (Edit-mode keystrokes) of an edit (SpecEdit).
MaxEdits == 3

\* Most lines of a document whose lines are filtered (SpecSignals).
MaxLines == 10
\* Largest one-digit number of a line filter token (SpecSignals).
MaxLineArg == 5

\* Longest document filtered by two features in turn (SpecNarrow).
MaxNarrowDocLen == 4

\* Most set_marks calls in a row (SpecMarks).
MaxMarkCalls == 2

\* Longest document filtered by patterns (SpecFilter).
MaxPatternDocLen == 4

\* Most signals of a pattern filter (SpecFilter).
MaxPatternSections == 4

\* Longest text of the file of a `see` on its own (SpecSee).
MaxSeeDocLen == 5

\* Most lines of the document on display before it, and most scrolls.
MaxSeeLines == 3

\* Most lines of the longer files of a `see` on its own.
MaxSeeFileLines == 10

\* Most lines of a document edited under a scrolled origin (SpecDraw), most
\* scrolls before the edit, and most update_view calls of the edit.
MaxDrawLines == 3
MaxDrawEdits == 2

\* Largest Pointer and largest operand of the Pointer operations called on
\* their own (SpecPointer), and most calls in a row.
MaxPointer == 3
MaxOperand == 3
MaxPointerCalls == 2

\* Most lines of a document scrolled on its own (SpecScroll), and the
\* largest movement of one scroll.
MaxScrollLines == 8
MaxMovement == 10

-----------------------------------------------------------------------------
(* Characters *)

ENTER == "\n"
CR == "\r"
BACKSPACE == "BS"
ESC == "ESC"
TAB == "\t"

\* Characters a document read from disk is made of.
DocChars == {"a", "b", ENTER}

\* The ordinary character typed in Edit mode.
EditChars == {"x"}

Digits == {"0", "1", "2", "3", "4", "5", "6", "7", "8", "9"}

DigitValue(c) ==
    CASE c = "0" -> 0 [] c = "1" -> 1 [] c = "2" -> 2 [] c = "3" -> 3
      [] c = "4" -> 4 [] c = "5" -> 5 [] c = "6" -> 6 [] c = "7" -> 7
      [] c = "8" -> 8 [] c = "9" -> 9

\* The decimal numeral of n.
RECURSIVE Numeral(_)
Numeral(n) ==
    LET digit(d) == CHOOSE c \in Digits : DigitValue(c) = d
    IN IF n < 10 THEN <<digit(n)>> ELSE Numeral(n \div 10) \o <<digit(n % 10)>>

\* All sequences over S of length at most n.
SeqsUpTo(S, n) == UNION {[1..k -> S] : k \in 0..n}

-----------------------------------------------------------------------------
(* Option<usize> *)

Some(x) == [some |-> TRUE, v |-> x]
None == [some |-> FALSE, v |-> 0]

-----------------------------------------------------------------------------
(* LineNumber: a NonZeroUsize *)

\* Sub<usize> for LineNumber: clamps at the default line, 1.
LineSub(line, other) == IF line > other THEN line - other ELSE 1

\* Add<isize> for LineNumber.
LineAdd(line, other) == IF other < 0 THEN LineSub(line, -other) ELSE line + other

-----------------------------------------------------------------------------
(* View *)

\* str::match_indices(ENTER): the 0-based indices of the line breaks.
MatchIndices(data) == {i \in 0..(Len(data) - 1) : data[i + 1] = ENTER}

\* Iterator::nth on match_indices: the k-th (0-based) line break, if any.
NthEnter(data, k) ==
    LET S == MatchIndices(data) IN
    IF k < Cardinality(S)
    THEN Some(CHOOSE i \in S : Cardinality({j \in S : j < i}) = k)
    ELSE None

\* str::lines: the text between line breaks; a final line break ends the
\* last line and does not start an empty one.
Lines(data) ==
    LET S == MatchIndices(data)
        n == Cardinality(S)
        start(k) == IF k = 0 THEN 0 ELSE NthEnter(data, k - 1).v + 1
        stop(k) == IF k < n THEN NthEnter(data, k).v ELSE Len(data)
        count == IF start(n) < Len(data) THEN n + 1 ELSE n
    IN [k \in 1..count |-> SubSeq(data, start(k - 1) + 1, stop(k - 1))]

\* View::line: lines().nth(line_number.index()).
ViewLine(data, line) ==
    IF line <= Len(Lines(data)) THEN Some(Lines(data)[line]) ELSE None

\* View::line_length unwraps the line: it panics when the line does not exist.
LineLengthPanics(data, place) == ~ViewLine(data, place.line).some

LineLength(data, place) == Len(ViewLine(data, place.line).v)

\* The gutter: -(ceil(log10(line_count + 1)) + 1).
OriginIndex(line_count) ==
    IF line_count = 0 THEN -1
    ELSE IF line_count < 10 THEN -2
    ELSE IF line_count < 100 THEN -3
    ELSE -4

\* View::clean recomputes line_count and the gutter width.
Clean(v) ==
    [v EXCEPT !.line_count = Len(Lines(v.data)),
              !.origin.index = OriginIndex(Len(Lines(v.data)))]

\* View::default.
DefaultView == [data |-> <<>>, origin |-> [line |-> 1, index |-> 0], line_count |-> 0]

\* The text were with_file to keep the carriage returns of the file.
KeepCR(text) == text

\* text.replace('\r', ""): the text without its carriage returns.
RemoveCR(text) ==
    LET NotCR(c) == c /= CR
    IN  SelectSeq(text, NotCR)

\* View::with_file, given the text the read returned.
WithFile(text) == Clean([DefaultView EXCEPT !.data = RemoveCR(text)])

\* The origin were scroll not to stop at the last line.
ScrollUnclamped(v, movement) ==
    [v EXCEPT !.origin.line = LineAdd(v.origin.line, movement)]

\* View::scroll.
Scroll(v, movement) ==
    LET last == IF v.line_count = 0 THEN 1 ELSE v.line_count
        moved == LineAdd(v.origin.line, movement)
    IN [v EXCEPT !.origin.line = IF moved < last THEN moved ELSE last]

-----------------------------------------------------------------------------
(* Place, Length, Section *)

Place(line, index) == [line |-> line, index |-> index]

\* Length: a character count, or END (to the end of the line).
END == [end |-> TRUE, n |-> 0]
LengthFrom(n) == [end |-> FALSE, n |-> n]

\* Section::line: a whole line.
SectionLine(line) == [start |-> Place(line, 0), length |-> END]

\* Shr<usize> for Place: the place moved right within its line.
Shr(place, rhs) == [place EXCEPT !.index = place.index + rhs]

-----------------------------------------------------------------------------
(* Address, Region, Edit: what the user interface is given *)

\* ui::Address, ui::Region and ui::Edit, as far as lib.rs uses them: the
\* Address of a row and a column of the screen, the Region of a length from
\* an Address, the Region of a whole row, the default Region, the Edit of a
\* Region by a Change.
Address(row, column) == [row |-> row, column |-> column]
Region(start, length) == [start |-> start, length |-> length]
RegionRow(row) == Region(Address(row, 0), END)
RegionDefault == Region(Address(0, 0), LengthFrom(0))
Edit(region, change) == [region |-> region, change |-> change]
ChangeRow(text) == [kind |-> "Row", c |-> text]

\* The Address were to_address to take the origin's own line for a line
\* before it.
PlaceToAddressStrict(place, origin) ==
    IF place.line <= origin.line THEN None
    ELSE Some(Address(place.line - origin.line, place.index - origin.index))

\* Place::to_address: None for a Place on a line before the origin's.
PlaceToAddress(place, origin) ==
    IF place.line < origin.line THEN None
    ELSE Some(Address(place.line - origin.line, place.index - origin.index))

\* Place::to_region: the Region of one character at the Address.
PlaceToRegion(place, origin) ==
    LET address == PlaceToAddress(place, origin)
    IN  IF address.some THEN Some(Region(address.v, LengthFrom(1))) ELSE None

\* Section::to_region: the Region of the Section's length at the Address of
\* its start.
SectionToRegion(section, origin) ==
    LET address == PlaceToAddress(section.start, origin)
    IN  IF address.some THEN Some(Region(address.v, section.length)) ELSE None

\* format!("{:>width$}", number): the numeral, spaces before it up to width.
PadLeft(text, width) ==
    [i \in 1..(IF width > Len(text) THEN width - Len(text) ELSE 0) |-> " "] \o text

\* The rows were redraw_edits to number them from 0.
RedrawEditsFromZero(v) ==
    LET ls == Lines(v.data)
        skip == v.origin.line - 1
        width == (-v.origin.index) - 1
    IN  <<Edit(RegionDefault, [kind |-> "Clear", c |-> ""])>>
        \o [k \in 1..(IF Len(ls) > skip THEN Len(ls) - skip ELSE 0) |->
              Edit(RegionRow(k - 1),
                   ChangeRow(PadLeft(Numeral(v.origin.line - 1 + (k - 1)), width)
                             \o <<" ">> \o ls[skip + k]))]

\* View::redraw_edits: an Edit that clears the screen, then one per line
\* from the origin on, the row of the line number and the text.
RedrawEdits(v) ==
    LET ls == Lines(v.data)
        skip == v.origin.line - 1
        width == (-v.origin.index) - 1
    IN  <<Edit(RegionDefault, [kind |-> "Clear", c |-> ""])>>
        \o [k \in 1..(IF Len(ls) > skip THEN Len(ls) - skip ELSE 0) |->
              Edit(RegionRow(k - 1),
                   ChangeRow(PadLeft(Numeral(v.origin.line + (k - 1)), width)
                             \o <<" ">> \o ls[skip + k]))]

-----------------------------------------------------------------------------
(* Filters *)

\* Index after the longest run of digits of s that starts at index i (1-based).
RECURSIVE DigitRun(_, _)
DigitRun(s, i) ==
    IF i <= Len(s) /\ s[i] \in Digits THEN DigitRun(s, i + 1) ELSE i

\* str::parse::<usize> of a run of digits.
RECURSIVE ParseUsize(_)
ParseUsize(s) ==
    IF s = <<>> THEN 0
    ELSE 10 * ParseUsize(SubSeq(s, 1, Len(s) - 1)) + DigitValue(s[Len(s)])

\* The movement were its sign dropped.
ParseIsizeUnsigned(s) == ParseUsize(Tail(s))

\* str::parse::<isize> of a sign followed by a run of digits.
ParseIsize(s) ==
    IF s[1] = "-" THEN -ParseUsize(Tail(s)) ELSE ParseUsize(Tail(s))

NoTokens == [kind |-> "none", a |-> 0, b |-> 0]

\* The line filter's pattern tried at index i of the feature:
\* '#' (digits End | digits '.' digits | digits ('+' | '-') digits).
LineMatchAt(s, i) ==
    LET d1 == DigitRun(s, i + 1)
        d2 == DigitRun(s, d1 + 1)
        first == ParseUsize(SubSeq(s, i + 1, d1 - 1))
    IN  IF ~(s[i] = "#" /\ d1 > i + 1) THEN NoTokens
        ELSE IF d1 = Len(s) + 1 THEN [kind |-> "line", a |-> first, b |-> 0]
        ELSE IF d2 > d1 + 1 /\ s[d1] = "."
            THEN [kind |-> "range", a |-> first,
                  b |-> ParseUsize(SubSeq(s, d1 + 1, d2 - 1))]
        ELSE IF d2 > d1 + 1 /\ s[d1] \in {"+", "-"}
            THEN [kind |-> "movement", a |-> first,
                  b |-> ParseIsize(SubSeq(s, d1, d2 - 1))]
        ELSE NoTokens

\* Pattern::tokenize for the line filter: the named groups of the leftmost match.
RECURSIVE LineTokensFrom(_, _)
LineTokensFrom(s, i) ==
    IF i > Len(s) THEN NoTokens
    ELSE IF LineMatchAt(s, i).kind /= "none" THEN LineMatchAt(s, i)
    ELSE LineTokensFrom(s, i + 1)

LineTokens(feature) == LineTokensFrom(feature, 1)

\* The Sections kept were `#n` to keep the lines up to n.
LineFilterExtractUpTo(feature, sections) ==
    LET t == LineTokens(feature)
        other == IF t.kind = "range" THEN t.b ELSE t.a + t.b
        wrapped == other < 0
        top == IF wrapped \/ t.a < other THEN t.a ELSE other
        bottom == IF t.a < other THEN other ELSE t.a
        InRange(x) == x.start.line >= top /\ (wrapped \/ x.start.line <= bottom)
        IsLine(x) == x.start.line <= t.a
    IN  CASE t.kind = "line" -> SelectSeq(sections, IsLine)
          [] t.kind \in {"range", "movement"} -> SelectSeq(sections, InRange)
          [] OTHER -> sections

\* The Sections kept were the ends of a range taken in the order typed.
LineFilterExtractUnordered(feature, sections) ==
    LET t == LineTokens(feature)
        other == IF t.kind = "range" THEN t.b ELSE t.a + t.b
        InRange(x) == x.start.line >= t.a /\ x.start.line <= other
        IsLine(x) == x.start.line = t.a
    IN  CASE t.kind = "line" -> SelectSeq(sections, IsLine)
          [] t.kind \in {"range", "movement"} -> SelectSeq(sections, InRange)
          [] OTHER -> sections

\* LineFilter::extract; Vec::retain is SelectSeq.  A movement that takes the
\* origin below zero wraps around as a usize: the end is then above every
\* line number.
LineFilterExtract(feature, sections) ==
    LET t == LineTokens(feature)
        other == IF t.kind = "range" THEN t.b ELSE t.a + t.b
        wrapped == other < 0
        top == IF wrapped \/ t.a < other THEN t.a ELSE other
        bottom == IF t.a < other THEN other ELSE t.a
        InRange(x) == x.start.line >= top /\ (wrapped \/ x.start.line <= bottom)
        IsLine(x) == x.start.line = t.a
    IN  CASE t.kind = "line" -> SelectSeq(sections, IsLine)
          [] t.kind \in {"range", "movement"} -> SelectSeq(sections, InRange)
          [] OTHER -> sections

\* The pattern filter's pattern, '/' followed by one or more characters:
\* the text named "pattern" of the leftmost match, if there is a match.
RECURSIVE PatternTokenFrom(_, _)
PatternTokenFrom(s, i) ==
    IF i >= Len(s) THEN None
    ELSE IF s[i] = "/" THEN Some(SubSeq(s, i + 1, Len(s)))
    ELSE PatternTokenFrom(s, i + 1)

PatternToken(feature) == PatternTokenFrom(feature, 1)

\* Whether pattern p occurs in target at 0-based index k.
OccursAt(target, p, k) ==
    /\ k + Len(p) <= Len(target)
    /\ SubSeq(target, k + 1, k + Len(p)) = p

\* The matches were the search to resume one character after the start of
\* a match where it resumes at the end of it: overlapping matches are found.
RECURSIVE LocateFromOverlapping(_, _, _)
LocateFromOverlapping(target, p, k) ==
    IF k + Len(p) > Len(target) THEN <<>>
    ELSE IF OccursAt(target, p, k)
        THEN <<k>> \o LocateFromOverlapping(target, p, k + 1)
    ELSE LocateFromOverlapping(target, p, k + 1)

\* Pattern::locate_iter: the 0-based starts of the successive non-overlapping
\* matches, each searched from the end of the one before.
RECURSIVE LocateFrom(_, _, _)
LocateFrom(target, p, k) ==
    IF k + Len(p) > Len(target) THEN <<>>
    ELSE IF OccursAt(target, p, k) THEN <<k>> \o LocateFrom(target, p, k + Len(p))
    ELSE LocateFrom(target, p, k + 1)

LocateIter(target, p) == LocateFrom(target, p, 0)

\* The characters of s after the first n (chars().skip(n)).
Skip(s, n) == IF n >= Len(s) THEN <<>> ELSE SubSeq(s, n + 1, Len(s))

\* The Sections PatternFilter::extract pushes for one target section.
TargetMatches(target_section, p, data) ==
    LET target == Skip(ViewLine(data, target_section.start.line).v,
                       target_section.start.index)
        found == LocateIter(target, p)
    IN [j \in 1..Len(found) |->
            [start |-> Shr(target_section.start, found[j]),
             length |-> LengthFrom(Len(p))]]

RECURSIVE PatternSections(_, _, _, _)
PatternSections(targets, p, data, i) ==
    IF i > Len(targets) THEN <<>>
    ELSE TargetMatches(targets[i], p, data) \o PatternSections(targets, p, data, i + 1)

\* PatternFilter::extract unwraps the line of every target section.
PatternFilterPanics(feature, sections, data) ==
    /\ PatternToken(feature).some
    /\ \E i \in 1..Len(sections) : ~ViewLine(data, sections[i].start.line).some

\* PatternFilter::extract.
PatternFilterExtract(feature, sections, data) ==
    IF PatternToken(feature).some
    THEN PatternSections(sections, PatternToken(feature).v, data, 1)
    ELSE sections

\* Filter::id of the filters, in the order PaperFilters iterates them.
FilterIds == <<"#", "/">>

\* Paper::filter_signals: the first filter whose id is the feature's first
\* character narrows a copy of the noises.
FilterSignalsPanics(feature, sections, data) ==
    /\ feature /= <<>>
    /\ feature[1] = FilterIds[2]
    /\ PatternFilterPanics(feature, sections, data)

\* The signals were every filter tried on the feature, whatever its first
\* character.
FilterSignalsEveryFilter(feature, sections, data) ==
    IF feature = <<>> THEN sections
    ELSE PatternFilterExtract(feature, LineFilterExtract(feature, sections), data)

FilterSignals(feature, sections, data) ==
    IF feature = <<>> THEN sections
    ELSE IF feature[1] = FilterIds[1] THEN LineFilterExtract(feature, sections)
    ELSE IF feature[1] = FilterIds[2] THEN PatternFilterExtract(feature, sections, data)
    ELSE sections

-----------------------------------------------------------------------------
(* Marks *)

\* Add<Pointer> for usize: None stays None.
PointerAdd(n, pointer) == IF pointer.some THEN Some(pointer.v + n) ELSE None

\* The width of usize and isize, which the model takes 16 bits wide: the
\* values of usize are 0..UsizeModulus - 1.
UsizeModulus == 65536
IsizeMax == (UsizeModulus \div 2) - 1
IsizeMin == -(UsizeModulus \div 2)

\* What a Pointer operation comes to: a Pointer, or a panic.
Outcome(pointer) == [panic |-> FALSE, pointer |-> pointer]
Panic == [panic |-> TRUE, pointer |-> None]

\* An integer operation whose result is out of the type's range panics
\* where the build checks overflow and wraps around where it does not.
Overflow(n) == {Panic, Outcome(Some(n % UsizeModulus))}

\* Add<usize> for Pointer: self.0.map(|x| x + other).
PointerPlus(pointer, other) ==
    IF ~pointer.some THEN {Outcome(None)}
    ELSE IF pointer.v + other < UsizeModulus THEN {Outcome(Some(pointer.v + other))}
    ELSE Overflow(pointer.v + other)

\* SubAssign<usize> for Pointer: self.0.map(|x| x - other).
PointerSubAssign(pointer, other) ==
    IF ~pointer.some THEN {Outcome(None)}
    ELSE IF pointer.v >= other THEN {Outcome(Some(pointer.v - other))}
    ELSE Overflow(pointer.v - other)

\* AddAssign<isize> for Pointer: self.0.map(|x| (x as isize + other) as usize).
\* The casts wrap around and never panic; the addition is one of isize.
PointerAddAssign(pointer, other) ==
    LET signed == IF pointer.v > IsizeMax THEN pointer.v - UsizeModulus ELSE pointer.v
        sum == signed + other
    IN  IF ~pointer.some THEN {Outcome(None)}
        ELSE IF sum >= IsizeMin /\ sum <= IsizeMax THEN {Outcome(Some(sum % UsizeModulus))}
        ELSE Overflow(sum)

\* The pointer set_marks computes for a place: the index within the line
\* added to the index after the line break that starts the line.
PlacePointer(data, place) ==
    PointerAdd(place.index,
               IF place.line - 1 = 0 THEN Some(0)
               ELSE LET enter == NthEnter(data, place.line - 2)
                    IN IF enter.some THEN Some(enter.v + 1) ELSE None)

\* The place were set_marks to take the start of the signal at either edge.
SignalPlaceStart(signal, edge, data) == signal.start

\* The place set_marks gives the mark of a signal.
SignalPlace(signal, edge, data) ==
    IF edge = "End"
    THEN Shr(signal.start,
             IF signal.length.end THEN LineLength(data, signal.start)
             ELSE signal.length.n)
    ELSE signal.start

\* set_marks resolves END through View::line_length, which unwraps the line.
SetMarksPanics(sigs, edge, data) ==
    /\ edge = "End"
    /\ \E i \in 1..Len(sigs) : sigs[i].length.end /\ LineLengthPanics(data, sigs[i].start)

\* Paper::set_marks: one mark per signal, in order.
SetMarks(sigs, edge, data) ==
    [i \in 1..Len(sigs) |->
        [place |-> SignalPlace(sigs[i], edge, data),
         pointer |-> PlacePointer(data, SignalPlace(sigs[i], edge, data))]]

-----------------------------------------------------------------------------
(* Adjustment *)

\* ui::Change, as far as update_view uses it.
Change(kind, c) == [kind |-> kind, c |-> c]
ChangeNothing == Change("Nothing", "")
ChangeClear == Change("Clear", "")
ChangeBackspace == Change("Backspace", "")
ChangeInsert(c) == Change("Insert", c)

\* Adjustment::default.
DefaultAdjustment ==
    [shift |-> 0, line_change |-> 0, indexes_changed |-> <<>>, change |-> ChangeNothing]

\* Adjustment::new.
AdjustmentNew(line, shift, index_change, change) ==
    LET line_change == IF change = ChangeClear THEN shift ELSE 0
    IN [shift |-> shift,
        line_change |-> line_change,
        indexes_changed |-> (LineAdd(line, line_change) :> index_change),
        change |-> change]

\* Adjustment::create reads the length of the place's line for a Backspace
\* at index 0: it panics when the view has no such line.
CreatePanics(c, place, data) ==
    c = BACKSPACE /\ place.index = 0 /\ LineLengthPanics(data, place)

\* Adjustment::create.
AdjustmentCreate(c, place, data) ==
    IF c = BACKSPACE THEN
        IF place.index = 0
        THEN AdjustmentNew(place.line, -1, LineLength(data, place), ChangeClear)
        ELSE AdjustmentNew(place.line, -1, -1, ChangeBackspace)
    ELSE IF c = ENTER
        THEN AdjustmentNew(place.line, 1, -place.index, ChangeClear)
    ELSE AdjustmentNew(place.line, 1, 1, ChangeInsert(c))

\* The adjustment were update_view to assign it (=) for each mark where it
\* adds (+=): the contributions of the earlier marks are lost.
AddAssignForgets(self, other) == other

\* The change were AddAssign to take the other's whatever its own.
AddAssignLastChange(self, other) ==
    LET keys == DOMAIN self.indexes_changed \cup DOMAIN other.indexes_changed
        at(m, k) == IF k \in DOMAIN m THEN m[k] ELSE 0
    IN [shift |-> self.shift + other.shift,
        line_change |-> self.line_change + other.line_change,
        indexes_changed |->
            [k \in keys |-> at(self.indexes_changed, k) + at(other.indexes_changed, k)],
        change |-> other.change]

\* AddAssign for Adjustment.
AddAssign(self, other) ==
    LET keys == DOMAIN self.indexes_changed \cup DOMAIN other.indexes_changed
        at(m, k) == IF k \in DOMAIN m THEN m[k] ELSE 0
    IN [shift |-> self.shift + other.shift,
        line_change |-> self.line_change + other.line_change,
        indexes_changed |->
            [k \in keys |-> at(self.indexes_changed, k) + at(other.indexes_changed, k)],
        change |-> IF self.change /= ChangeClear THEN other.change ELSE self.change]

\* Mark::adjust unwraps the pointer.
AdjustPanics(mark) == ~mark.pointer.some

\* Mark::adjust.
MarkAdjust(mark, adjustment) ==
    IF -adjustment.shift < mark.pointer.v
    THEN LET line == LineAdd(mark.place.line, adjustment.line_change)
         IN [pointer |-> Some(mark.pointer.v + adjustment.shift),
             place |-> Place(line,
                             IF line \in DOMAIN adjustment.indexes_changed
                             THEN mark.place.index + adjustment.indexes_changed[line]
                             ELSE mark.place.index)]
    ELSE mark

\* View::add: String::remove panics unless index < len; String::insert at
\* index - 1 panics when index is 0 (the subtraction) or index - 1 > len.
ViewAddPanics(data, mark, c) ==
    IF c = BACKSPACE THEN mark.pointer.v >= Len(data)
    ELSE mark.pointer.v = 0 \/ mark.pointer.v - 1 > Len(data)

\* The text were View::add to insert at the pointer where it inserts at
\* pointer - 1.
ViewAddAtPointer(data, mark, c) ==
    LET index == mark.pointer.v IN
    IF c = BACKSPACE
    THEN SubSeq(data, 1, index) \o SubSeq(data, index + 2, Len(data))
    ELSE IF index > Len(data) THEN Append(data, c)
    ELSE SubSeq(data, 1, index) \o <<c>> \o SubSeq(data, index + 1, Len(data))

\* View::add.
ViewAdd(data, mark, c) ==
    LET index == mark.pointer.v IN
    IF c = BACKSPACE
    THEN SubSeq(data, 1, index) \o SubSeq(data, index + 2, Len(data))
    ELSE SubSeq(data, 1, index - 1) \o <<c>> \o SubSeq(data, index, Len(data))

\* The Edit update_view applies to the user interface for one mark: none
\* when the running change is Clear or the mark's Place has no Region.
MarkEdits(place, origin, change) ==
    IF change /= ChangeClear /\ PlaceToRegion(place, origin).some
    THEN <<Edit(PlaceToRegion(place, origin).v, change)>>
    ELSE <<>>

\* The end of an iteration of update_view's loop: the state s of the loop
\* after the i-th mark, given the mark's own Adjustment, the accumulated
\* one, the mark adjusted and the Edits applied; a panic ends the loop.
MarkStepWith(s, i, c, own, adjustment, adjusted, applied) ==
    IF s.panic THEN s
    ELSE IF CreatePanics(c, s.marks[i].place, s.data)
        THEN [s EXCEPT !.panic = TRUE]
    ELSE IF AdjustPanics(s.marks[i])
        THEN [s EXCEPT !.panic = TRUE, !.applied = applied,
                       !.changes = Append(s.changes, own.change)]
    ELSE IF ViewAddPanics(s.data, adjusted, c)
        THEN [s EXCEPT !.panic = TRUE, !.adjustment = adjustment,
                       !.marks[i] = adjusted, !.applied = applied,
                       !.changes = Append(s.changes, own.change)]
    ELSE [marks |-> [s.marks EXCEPT ![i] = adjusted],
          data |-> ViewAdd(s.data, adjusted, c),
          origin |-> s.origin,
          adjustment |-> adjustment,
          changes |-> Append(s.changes, own.change),
          applied |-> applied,
          panic |-> FALSE]

\* The body with the mark's own adjustment and the accumulated one: the
\* Edit applied, the mark adjusted.
MarkStepOwn(s, i, c, own, adjustment) ==
    MarkStepWith(s, i, c, own, adjustment, MarkAdjust(s.marks[i], adjustment),
                 s.applied \o MarkEdits(s.marks[i].place, s.origin, adjustment.change))

\* One iteration of update_view's loop, for the i-th mark.  s is the state
\* the loop works on: the marks, the text, the origin of the view, the
\* running adjustment, the Edits applied to the user interface so far and
\* whether a panic has ended the loop; changes holds the Change of each
\* mark's own Adjustment.
MarkStep(s, i, c) ==
    MarkStepOwn(s, i, c, AdjustmentCreate(c, s.marks[i].place, s.data),
                AddAssign(s.adjustment, AdjustmentCreate(c, s.marks[i].place, s.data)))

RECURSIVE UpdateLoop(_, _, _)
UpdateLoop(s, i, c) ==
    IF i > Len(s.marks) THEN s ELSE UpdateLoop(MarkStep(s, i, c), i + 1, c)

\* The state update_view's loop starts in.
LoopInit(ms, data, origin) ==
    [marks |-> ms, data |-> data, origin |-> origin, adjustment |-> DefaultAdjustment,
     changes |-> <<>>, applied |-> <<>>, panic |-> FALSE]

\* The loop of Paper::update_view over all the marks.
UpdateMarks(ms, data, origin, c) == UpdateLoop(LoopInit(ms, data, origin), 1, c)

-----------------------------------------------------------------------------
(* Paper: the operations its methods carry out on the application state p,
   a record of the variables. *)

\* UserInterface::grid_height: the height of the terminal.
GridHeight == 4

\* Paper::scroll_height.
ScrollHeight == GridHeight \div 4

\* Paper::display_view: the Edits applied to the user interface, the first
\* grid_height of redraw_edits.
DisplayView(p) ==
    LET redraw == RedrawEdits(p.view)
    IN  SubSeq(redraw, 1, IF Len(redraw) < GridHeight THEN Len(redraw) ELSE GridHeight)

\* The whole-line Sections change_view seeds the noises with.
LineSections(line_count) == [line \in 1..line_count |-> SectionLine(line)]

\* Paper::change_view, given the text read from the file.
ChangeView(p, text) ==
    [p EXCEPT !.view = WithFile(text),
              !.noises = LineSections(WithFile(text).line_count)]

\* The noises were reduce_noise to leave them as they are.
ReduceNoiseKeeps(p) == p

\* Paper::reduce_noise.
ReduceNoise(p) == [p EXCEPT !.noises = p.signals]

\* Paper::filter_signals.
PaperFilterSignals(p, feature) ==
    IF FilterSignalsPanics(feature, p.noises, p.view.data)
    THEN [p EXCEPT !.status = "panicked"]
    ELSE [p EXCEPT !.signals = FilterSignals(feature, p.noises, p.view.data)]

\* The sketch were Backspace to clear it.
AddToSketchClears(sk, c) == IF c = BACKSPACE THEN <<>> ELSE Append(sk, c)

\* Paper::add_to_sketch.
AddToSketch(sk, c) ==
    IF c = BACKSPACE
    THEN (IF sk = <<>> THEN sk ELSE SubSeq(sk, 1, Len(sk) - 1))
    ELSE Append(sk, c)

RECURSIVE AddAllToSketch(_, _)
AddAllToSketch(sk, text) ==
    IF text = <<>> THEN sk
    ELSE AddAllToSketch(AddToSketch(sk, Head(text)), Tail(text))

\* Paper::reset_sketch.
ResetSketch(p) == [p EXCEPT !.sketch = <<>>]

\* Paper::scroll.
PaperScroll(p, movement) == [p EXCEPT !.view = Scroll(p.view, movement)]

\* The marks were set_marks not to clear them first.
KeepMarks(ms) == ms

\* Vec::clear of the marks.
ClearMarks(ms) == <<>>

\* Paper::set_marks: the marks are cleared, then one is pushed per signal.
PaperSetMarks(p, edge) ==
    IF SetMarksPanics(p.signals, edge, p.view.data)
    THEN [p EXCEPT !.status = "panicked"]
    ELSE [p EXCEPT !.marks = ClearMarks(p.marks) \o SetMarks(p.signals, edge, p.view.data)]

NoHist ==
    [valid |-> FALSE, key |-> "", marks |-> <<>>, data |-> <<>>,
     change |-> ChangeNothing, panic |-> FALSE, read |-> None,
     movement |-> 0, changes |-> <<>>, applied |-> <<>>, cleaned |-> FALSE,
     redraw |-> <<>>]

\* The view after the loop r of update_view: the text the loop has made,
\* cleaned when the accumulated Change is Clear.
ViewAfter(v, r) ==
    LET edited == [v EXCEPT !.data = r.data]
    IN  IF r.adjustment.change = ChangeClear THEN Clean(edited) ELSE edited

\* The record of the call: its arguments, what the loop did, and what
\* display_view drew after a clean.
UpdateRecord(p, c, r, after) ==
    [valid |-> TRUE, key |-> c, marks |-> p.marks, data |-> p.view.data,
     change |-> r.adjustment.change, panic |-> r.panic, read |-> None,
     movement |-> 0, changes |-> r.changes, applied |-> r.applied,
     cleaned |-> ~r.panic /\ r.adjustment.change = ChangeClear,
     redraw |-> IF ~r.panic /\ r.adjustment.change = ChangeClear
                THEN DisplayView([p EXCEPT !.view = after]) ELSE <<>>]

\* The application after update_view: the marks and the view the loop has
\* made, or a panic; h records the call.
UpdateResult(p, r, after, h) ==
    IF r.panic
    THEN [p EXCEPT !.status = "panicked", !.hist = h, !.edits = p.edits - 1]
    ELSE [p EXCEPT !.marks = r.marks,
                   !.view = after,
                   !.hist = h,
                   !.edits = p.edits - 1]

\* update_view from the end of its loop r on.
UpdateViewLoop(p, c, r) ==
    UpdateResult(p, r, ViewAfter(p.view, r), UpdateRecord(p, c, r, ViewAfter(p.view, r)))

\* Paper::update_view: the loop over the marks, then View::clean and
\* display_view when the class of the keystroke is Clear.  The history
\* records the call: the Change of each mark, the Edits the loop applied,
\* whether the view was cleaned and the Edits display_view applied.
UpdateView(p, c) ==
    UpdateViewLoop(p, c, UpdateMarks(p.marks, p.view.data, p.view.origin, c))

\* Paper::change_mode (Controller::set_mode).
ChangeModeTo(p, m) == [p EXCEPT !.mode = m]

-----------------------------------------------------------------------------
(* Mode handlers (mode.rs): the operations each mode produces for an input *)

Op(name, arg) == [op |-> name, arg |-> arg]

\* The operations were Display to take the signals for the noises on the
\* way into Filter mode.
DisplayProcessInputIdentifies(key) ==
    CASE key = "." -> <<Op("ChangeMode", "Command")>>
      [] key \in {"#", "/"} ->
            <<Op("IdentifyNoise", ""), Op("ChangeMode", "Filter"),
              Op("AddToSketch", <<key>>), Op("DrawSketch", "")>>
      [] key = "j" -> <<Op("ScrollDown", "")>>
      [] key = "k" -> <<Op("ScrollUp", "")>>
      [] OTHER -> <<>>

\* DisplayMode::process_input.
DisplayProcessInput(key) ==
    CASE key = "." -> <<Op("ChangeMode", "Command")>>
      [] key \in {"#", "/"} ->
            <<Op("ChangeMode", "Filter"), Op("AddToSketch", <<key>>), Op("DrawSketch", "")>>
      [] key = "j" -> <<Op("ScrollDown", "")>>
      [] key = "k" -> <<Op("ScrollUp", "")>>
      [] OTHER -> <<>>

\* CommandMode::process_input.
CommandProcessInput(key) ==
    CASE key = ENTER -> <<Op("ExecuteCommand", ""), Op("ChangeMode", "Display")>>
      [] key = ESC -> <<Op("ChangeMode", "Display")>>
      [] OTHER -> <<Op("AddToSketch", <<key>>), Op("DrawSketch", "")>>

\* The operations were Enter in Filter mode to go straight to Edit.
FilterProcessInputSkipsAction(key) ==
    CASE key = ENTER -> <<Op("SetMarks", "Start"), Op("ChangeMode", "Edit")>>
      [] key = "\t" ->
            <<Op("IdentifyNoise", ""), Op("AddToSketch", <<"&", "&">>), Op("DrawSketch", "")>>
      [] key = "ESC" -> <<Op("ChangeMode", "Display")>>
      [] OTHER -> <<Op("AddToSketch", <<key>>), Op("DrawSketch", "")>>

\* FilterMode::process_input.
FilterProcessInput(key) ==
    CASE key = ENTER -> <<Op("ChangeMode", "Action")>>
      [] key = TAB ->
            <<Op("IdentifyNoise", ""), Op("AddToSketch", <<"&", "&">>), Op("DrawSketch", "")>>
      [] key = ESC -> <<Op("ChangeMode", "Display")>>
      [] OTHER -> <<Op("AddToSketch", <<key>>), Op("DrawSketch", "")>>

\* ActionMode::process_input.
ActionProcessInput(key) ==
    CASE key = ESC -> <<Op("ChangeMode", "Display")>>
      [] key = "i" -> <<Op("SetMarks", "Start"), Op("ChangeMode", "Edit")>>
      [] key = "I" -> <<Op("SetMarks", "End"), Op("ChangeMode", "Edit")>>
      [] OTHER -> <<>>

\* The operations were Edit mode to take Escape for a character to type.
EditProcessInputTypesEscape(key) ==
    <<Op("AddToSketch", <<key>>), Op("UpdateView", key)>>

\* EditMode::process_input.
EditProcessInput(key) ==
    CASE key = ESC -> <<Op("ChangeMode", "Display")>>
      [] OTHER -> <<Op("AddToSketch", <<key>>), Op("UpdateView", key)>>

\* Controller::process_input: the handler of the current mode.
ProcessInput(m, key) ==
    CASE m = "Display" -> DisplayProcessInput(key)
      [] m = "Command" -> CommandProcessInput(key)
      [] m = "Filter" -> FilterProcessInput(key)
      [] m = "Action" -> ActionProcessInput(key)
      [] m = "Edit" -> EditProcessInput(key)

\* The feature FilterMode::enhance filters with: the last one of the sketch,
\* the features being separated by "&&".
RECURSIVE LastFeature(_)
LastFeature(sk) ==
    LET n == Len(sk)
        cut == {i \in 1..(n - 1) : sk[i] = "&" /\ sk[i + 1] = "&"}
    IN IF cut = {} THEN sk
       ELSE LastFeature(SubSeq(sk, (CHOOSE i \in cut : \A j \in cut : j >= i) + 2, n))

\* FilterMode::enhance unwraps lines through PatternFilter::extract.
EnhancePanics(p) == FilterSignalsPanics(LastFeature(p.sketch), p.noises, p.view.data)

\* FilterMode::enhance: the noises narrowed by the last feature.
FilterEnhance(p) == FilterSignals(LastFeature(p.sketch), p.noises, p.view.data)

-----------------------------------------------------------------------------
(* Operations: what executing each operation does to the application *)

SeeCommand == <<"s", "e", "e", " ">>
PutCommand == <<"p", "u", "t">>
EndCommand == <<"e", "n", "d">>

IsSee(sk) == Len(sk) > Len(SeeCommand) /\ SubSeq(sk, 1, Len(SeeCommand)) = SeeCommand

\* ExecuteCommand: the sketch as a command.  read is what reading the file
\* of a `see` gives: [ok |-> TRUE, text |-> t], or a failure, on which
\* View::with_file panics (it unwraps the result).
ExecuteCommand(p, read) ==
    IF IsSee(p.sketch)
    THEN (IF read.ok THEN ChangeView(p, read.text)
          ELSE [p EXCEPT !.status = "panicked"])
    ELSE IF p.sketch = EndCommand THEN [p EXCEPT !.status = "quit"]
    ELSE p

\* ChangeMode: sets the mode; a return to Display discards the sketch, the
\* marks and the filter working set.
ChangeMode(p, m) ==
    IF m = "Display"
    THEN [ChangeModeTo(ResetSketch(p), m) EXCEPT
              !.marks = <<>>,
              !.signals = <<>>,
              !.noises = LineSections(p.view.line_count)]
    ELSE ChangeModeTo(p, m)

\* Operations::execute.
Execute(p, o, read) ==
    CASE o.op = "ChangeMode" -> ChangeMode(p, o.arg)
      [] o.op = "AddToSketch" -> [p EXCEPT !.sketch = AddAllToSketch(p.sketch, o.arg)]
      [] o.op = "DrawSketch" -> p
      [] o.op = "ExecuteCommand" -> ExecuteCommand(p, read)
      [] o.op = "IdentifyNoise" -> ReduceNoise(p)
      [] o.op = "ScrollDown" -> PaperScroll(p, ScrollHeight)
      [] o.op = "ScrollUp" -> PaperScroll(p, -ScrollHeight)
      [] o.op = "SetMarks" -> PaperSetMarks(p, o.arg)
      [] o.op = "UpdateView" -> UpdateView(p, o.arg)

\* The run loop were it to drop the rest of the list once an operation has
\* changed the mode.
RECURSIVE RunOpsUntilModeChange(_, _, _)
RunOpsUntilModeChange(p, ops, read) ==
    IF ops = <<>> \/ p.status /= "running" THEN p
    ELSE LET q == Execute(p, Head(ops), read)
         IN  IF q.mode /= p.mode THEN q
             ELSE RunOpsUntilModeChange(q, Tail(ops), read)

\* The loop of Paper::run over the operations of one input: in order, until
\* one of them quits or panics.
RECURSIVE RunOps(_, _, _)
RunOps(p, ops, read) ==
    IF ops = <<>> \/ p.status /= "running" THEN p
    ELSE RunOps(Execute(p, Head(ops), read), Tail(ops), read)

\* The enhancement of the mode in effect after the operations.
Enhance(p) ==
    IF p.status /= "running" \/ p.mode /= "Filter" THEN p
    ELSE IF EnhancePanics(p) THEN [p EXCEPT !.status = "panicked"]
    ELSE [p EXCEPT !.signals = FilterEnhance(p)]

\* One iteration of the run loop: the operations of the current mode for
\* the input, then the enhancement.
Step(p, key, read) ==
    Enhance(RunOps([p EXCEPT !.hist = NoHist, !.input = key],
                   ProcessInput(p.mode, key), read))

-----------------------------------------------------------------------------
(* The inputs the model enumerates *)

\* The documents a read of the file may return in a whole session.
SessionDocs == SeqsUpTo({"a", ENTER}, MaxSessionDocLen)

\* What reading the file of a `see` gives: the text, or a failure.
ReadOk(text) == [ok |-> TRUE, text |-> text]
NoRead == [ok |-> FALSE, text |-> <<>>]
FileReads == {ReadOk(t) : t \in SessionDocs} \cup {NoRead}

\* The commands the user types (or leaves unfinished).
CommandTexts == {SeeCommand \o <<"f">>, PutCommand, EndCommand}

\* The filter tokens the user types.
FilterTokens == {<<"#", "2">>, <<"/", "a">>}

\* The filter sketches: up to n tokens joined by the separator.
RECURSIVE FilterTexts(_)
FilterTexts(n) ==
    IF n = 0 THEN {}
    ELSE FilterTokens \cup
         {s \o <<"&", "&">> \o t : s \in FilterTexts(n - 1), t \in FilterTokens}

\* The sketches on the way to one of the texts of S.
Prefixes(S) == UNION {{SubSeq(s, 1, k) : k \in 0..Len(s)} : s \in S}

CommandSketches == Prefixes(CommandTexts)
FilterSketches == Prefixes(FilterTexts(MaxTokens))

\* The keys the user presses.
Keys == {ESC, ENTER, BACKSPACE, TAB, ".", "#", "/", "j", "k", "i", "I",
         "1", "2", "a", "b", "s", "e", " ", "f", "p", "u", "t", "n", "d"}
        \cup EditChars

\* The sketch after the operations of an input, had nothing else happened.
SketchAfter(m, sk, key) ==
    LET ops == ProcessInput(m, key)
        adds == {i \in 1..Len(ops) : ops[i].op = "AddToSketch"}
    IN IF adds = {} THEN sk
       ELSE AddAllToSketch(sk, ops[CHOOSE i \in adds : TRUE].arg)

-----------------------------------------------------------------------------
(* ui::Terminal: the inputs of the command line and of the keyboard *)

\* Input::Config(Config::File(file)), Input::User(event), and the two other
\* results of Terminal::input: Ok(None) and Err.
ConfigInput(file) == [kind |-> "Config", v |-> file]
UserInput(event) == [kind |-> "User", v |-> event]
NoInput == [kind |-> "None", v |-> ""]
InputError == [kind |-> "Err", v |-> ""]

\* Terminal::default.  called is whether init has been called, file the
\* file of the Settings it was given, keys the keyboard events pending,
\* returned the results of the calls of input in order, and polls the number
\* of times the keyboard has been polled.
DefaultTerminal ==
    [is_init |-> FALSE, arg_inputs |-> <<>>, called |-> FALSE, file |-> None,
     keys |-> <<>>, returned |-> <<>>, polls |-> 0]

\* Terminal::init: the file of the settings is pushed, then the alternate
\* screen is entered, which may fail.
TerminalInit(t, file) ==
    LET pushed == [t EXCEPT !.called = TRUE, !.file = file,
                            !.arg_inputs = IF file.some THEN Append(@, file.v) ELSE @]
    IN  {pushed, [pushed EXCEPT !.is_init = TRUE]}

\* The arg_inputs were input to leave them as they are.
ArgInputsKept(arg_inputs) == arg_inputs

\* What Vec::pop leaves of the arg_inputs.
ArgInputsPop(arg_inputs) == SubSeq(arg_inputs, 1, Len(arg_inputs) - 1)

\* event::poll and event::read: an error of either, the first event
\* pending, or none.
PollInput(t) ==
    {[t EXCEPT !.polls = @ + 1, !.returned = Append(@, InputError)]}
    \cup (IF t.keys = <<>>
          THEN {[t EXCEPT !.polls = @ + 1, !.returned = Append(@, NoInput)]}
          ELSE {[t EXCEPT !.polls = @ + 1, !.keys = Tail(@),
                          !.returned = Append(@, UserInput(Head(t.keys)))]})

\* Terminal::input: the last of the arg_inputs, or else the keyboard.
TerminalInput(t) ==
    IF t.arg_inputs /= <<>>
    THEN {[t EXCEPT !.arg_inputs = ArgInputsPop(@),
                    !.returned = Append(@, ConfigInput(t.arg_inputs[Len(t.arg_inputs)]))]}
    ELSE PollInput(t)

-----------------------------------------------------------------------------
(* io::config: the config file and the ChangeFilter that watches it *)

\* Config::default.
DefaultConfig == [wrap |-> FALSE, starship_log |-> "Off"]

\* The configs a file may hold.
Configs == [wrap : BOOLEAN, starship_log : {"Off", "Info"}]

\* The config file: one that deserializes to a config, or one that is
\* missing, unreadable or does not deserialize.
GoodFile(config) == [ok |-> TRUE, config |-> config]
BadFile == [ok |-> FALSE, config |-> DefaultConfig]
ConfigFiles == {GoodFile(c) : c \in Configs} \cup {BadFile}

\* Config::read.
ConfigRead(file) == IF file.ok THEN file.config ELSE DefaultConfig

Wrap(v) == [kind |-> "Wrap", v |-> v]
StarshipLog(v) == [kind |-> "StarshipLog", v |-> v]

\* What process would produce were it not to compare the configs.
ProducedAlways(new_config, config) ==
    <<Wrap(new_config.wrap), StarshipLog(new_config.starship_log)>>

\* The settings process produces for a config read, given the one stored.
Produced(new_config, config) ==
    (IF new_config.wrap /= config.wrap THEN <<Wrap(new_config.wrap)>> ELSE <<>>)
    \o (IF new_config.starship_log /= config.starship_log
        THEN <<StarshipLog(new_config.starship_log)>> ELSE <<>>)

\* ChangeFilter::new on a path.  file is the config file as it is now,
\* watching whether the watcher has been made, events the events of the
\* watcher not yet drained, call the call in progress ("" for none), calls
\* and written the numbers of calls and of events so far, produced every
\* setting produced so far, in order, read the config read for the event
\* processed last, and returned the result of the last call.
ChangeFilterNew(file, watching) ==
    [config |-> ConfigRead(file), queue |-> <<>>, events |-> <<>>,
     file |-> file, watching |-> watching /\ file.ok, call |-> "", calls |-> 0,
     written |-> 0, produced |-> <<>>, read |-> None, returned |-> None]

\* One turn of the loop of process: the next event is drained; for a Write
\* the file is read, the settings are produced and the config is stored.
ProcessEvent(f) ==
    IF Head(f.events) = "Write"
    THEN [f EXCEPT !.events = Tail(@),
                   !.queue = @ \o Produced(ConfigRead(f.file), f.config),
                   !.produced = @ \o Produced(ConfigRead(f.file), f.config),
                   !.read = Some(ConfigRead(f.file)),
                   !.config = ConfigRead(f.file)]
    ELSE [f EXCEPT !.events = Tail(@), !.read = None]

\* The end of can_consume: queue.can_consume().
CanConsumeReturn(f) == [f EXCEPT !.call = "", !.returned = Some(f.queue /= <<>>)]

\* The end of consume: queue.consume(), an error when the queue is empty.
ConsumeReturn(f) ==
    IF f.queue = <<>> THEN [f EXCEPT !.call = "", !.returned = None]
    ELSE [f EXCEPT !.call = "", !.queue = Tail(@), !.returned = Some(Head(f.queue))]

-----------------------------------------------------------------------------
(* The state machine *)

Paper ==
    [mode |-> mode, sketch |-> sketch, view |-> view, noises |-> noises,
     signals |-> signals, marks |-> marks, status |-> status, edits |-> edits,
     input |-> input, hist |-> hist]

\* The variables after the run loop has processed one input.
Becomes(q) ==
    /\ mode' = q.mode
    /\ sketch' = q.sketch
    /\ view' = q.view
    /\ noises' = q.noises
    /\ signals' = q.signals
    /\ marks' = q.marks
    /\ status' = q.status
    /\ edits' = q.edits
    /\ input' = q.input
    /\ hist' = q.hist
    /\ terminal' = terminal
    /\ change_filter' = change_filter

\* The variables of the application are those of the state q.
IsPaper(q) ==
    /\ mode = q.mode
    /\ sketch = q.sketch
    /\ view = q.view
    /\ noises = q.noises
    /\ signals = q.signals
    /\ marks = q.marks
    /\ status = q.status
    /\ edits = q.edits
    /\ input = q.input
    /\ hist = q.hist

\* The variables are those of the application state q, the terminal new
\* and no config file there.
Is(q) ==
    /\ IsPaper(q)
    /\ terminal = DefaultTerminal
    /\ change_filter = ChangeFilterNew(BadFile, FALSE)

\* Paper::default, with the number of edits the run may make.
DefaultPaper(budget) ==
    [mode |-> "Display", sketch |-> <<>>, view |-> DefaultView, noises |-> <<>>,
     signals |-> <<>>, marks |-> <<>>, status |-> "running", edits |-> budget,
     input |-> "", hist |-> NoHist]

Init == Is(DefaultPaper(MaxSessionEdits))

\* An input in Display mode.
DisplayInput ==
    /\ status = "running" /\ mode = "Display"
    /\ \E key \in {".", "#", "/", "j", "k", ESC, "a"} :
          Becomes(Step(Paper, key, NoRead))

\* An input in Command mode; Enter on a `see` reads the file.
CommandInput ==
    /\ status = "running" /\ mode = "Command"
    /\ \E key \in Keys :
          /\ SketchAfter(mode, sketch, key) \in CommandSketches
          /\ \E read \in (IF key = ENTER /\ IsSee(sketch) THEN FileReads ELSE {NoRead}) :
                Becomes(Step(Paper, key, read))

\* An input in Filter mode, the sketch staying on the way to one of the
\* sketches and the signals within max.
FilterInputWith(keys, sketches, max) ==
    /\ status = "running" /\ mode = "Filter"
    /\ \E key \in keys :
          /\ SketchAfter(mode, sketch, key) \in sketches
          /\ Len(Step(Paper, key, NoRead).signals) <= max
          /\ Becomes(Step(Paper, key, NoRead))

FilterInput == FilterInputWith(Keys, FilterSketches, MaxSections)

\* An input in Action mode.
ActionInput ==
    /\ status = "running" /\ mode = "Action"
    /\ \E key \in {ESC, "i", "I", "a"} :
          Becomes(Step(Paper, key, NoRead))

\* An input in Edit mode.
EditInput ==
    /\ status = "running" /\ mode = "Edit"
    /\ \E key \in EditChars \cup {ENTER, BACKSPACE, ESC} :
          /\ key /= ESC => edits > 0
          /\ Becomes(Step(Paper, key, NoRead))

Next == DisplayInput \/ CommandInput \/ FilterInput \/ ActionInput \/ EditInput

Spec == Init /\ [][Next]_vars

-----------------------------------------------------------------------------
(* Properties of the modes (checked under Spec) *)

\* The mode changes of the transition graph.
ModeGraph ==
    {<<"Display", "Command">>, <<"Display", "Filter">>, <<"Command", "Display">>,
     <<"Filter", "Action">>, <<"Filter", "Display">>, <<"Action", "Edit">>,
     <<"Action", "Display">>, <<"Edit", "Display">>}

\* C8: the first mode is Display and every change of mode is an edge of the
\* transition graph; Edit is entered only from Action, on i or I, with the
\* marks set_marks makes of the signals at that edge.
C8_ModeGraph ==
    /\ mode = "Display"
    /\ [][mode' /= mode =>
            /\ <<mode, mode'>> \in ModeGraph
            /\ mode' = "Edit" =>
                  /\ input' \in {"i", "I"}
                  /\ marks' = SetMarks(signals, IF input' = "i" THEN "Start" ELSE "End",
                                       view.data)]_vars

\* Edit mode has been entered with marks and a character typed.
C8_Witness == mode = "Edit" /\ marks /= <<>> /\ hist.valid

\* C9: an Escape in any mode leaves the mode Display and the sketch empty,
\* with the text, edits included, as it was before the Escape.
C9_EscapeCancels ==
    [][input' = ESC =>
          /\ mode' = "Display"
          /\ sketch' = <<>>
          /\ view'.data = view.data
          /\ status' = "running"]_vars

\* Escape has ended an edit that typed a character, and the character is
\* still in the text.
C9_Witness ==
    /\ input = ESC /\ mode = "Display" /\ sketch = <<>>
    /\ edits < MaxSessionEdits
    /\ \E i \in 1..Len(view.data) : view.data[i] \in EditChars

-----------------------------------------------------------------------------
(* Editing on its own: the states in which Edit mode is entered, then the
   Edit-mode keystrokes.  The entry states are computed by the run loop
   from the keys that lead there. *)

\* The run loop over a sequence of inputs.
RECURSIVE RunInputs(_, _, _)
RunInputs(p, keys, read) ==
    IF keys = <<>> \/ p.status /= "running" THEN p
    ELSE RunInputs(Step(p, Head(keys), read), Tail(keys), read)

\* The keys that load the file: `.see f` and Enter.
LoadKeys == <<".">> \o SeeCommand \o <<"f", ENTER>>

\* The documents edited.
EditDocs == SeqsUpTo(DocChars, MaxDocLen)

\* The filters typed before an edit.
EditFilterTexts ==
    {<<"#", "1">>, <<"#", "2">>, <<"#", "1", ".", "2">>,
     <<"/", "a">>, <<"/", "b">>, <<"/", "a", "b">>}

\* A document is loaded, a filter typed and confirmed, and Edit mode
\* entered at the start (i) or the end (I) of the signals.
InitEdit ==
    \E doc \in EditDocs, text \in EditFilterTexts, edge \in {"i", "I"} :
        Is(RunInputs(DefaultPaper(MaxEdits),
                     LoadKeys \o text \o <<ENTER, edge>>, ReadOk(doc)))

SpecEdit == InitEdit /\ [][EditInput]_vars

-----------------------------------------------------------------------------
(* Pattern filtering on its own: a document is loaded and Filter mode
   entered with `/`, then the Filter-mode keystrokes. *)

\* The line of the example.
FooLine == <<"x", "x", "f", "o", "o", "y", "y">>

\* The documents filtered.
PatternDocs == SeqsUpTo(DocChars, MaxPatternDocLen) \cup {FooLine}

\* The pattern features the user types.
PatternTokens ==
    {<<"/", "a">>, <<"/", "b">>, <<"/", "a", "a">>, <<"/", "a", "b">>,
     <<"/", "f", "o", "o">>, <<"/", "o">>}

\* The sketches typed: one feature, or two joined by the separator.
PatternTexts ==
    PatternTokens \cup {s \o <<"&", "&">> \o t : s \in PatternTokens, t \in PatternTokens}

PatternSketches == Prefixes(PatternTexts)

PatternKeys == {ESC, ENTER, BACKSPACE, TAB, "/", "a", "b", "f", "o"}

InitPattern ==
    \E doc \in PatternDocs :
        Is(RunInputs(DefaultPaper(0), LoadKeys \o <<"/">>, ReadOk(doc)))

PatternInput == FilterInputWith(PatternKeys, PatternSketches, MaxPatternSections)

SpecFilter == InitPattern /\ [][PatternInput]_vars

-----------------------------------------------------------------------------
(* Properties of pattern filtering (checked under SpecFilter) *)

\* The 0-based starts of the non-overlapping matches of p in target, found
\* from the left: every start is an occurrence, no two of them overlap, and
\* an occurrence that is not a start is overlapped by a match further left.
MatchStarts(target, p) ==
    CHOOSE M \in SUBSET (0..Len(target)) :
        /\ \A k \in M : OccursAt(target, p, k)
        /\ \A k \in M : \A m \in M : k < m => k + Len(p) <= m
        /\ \A k \in 0..Len(target) :
              (OccursAt(target, p, k) /\ k \notin M)
                  => \E m \in M : m < k /\ k < m + Len(p)

\* The elements of a set of numbers in ascending order.
RECURSIVE Ascending(_)
Ascending(S) ==
    IF S = {} THEN <<>>
    ELSE LET least == CHOOSE k \in S : \A m \in S : k <= m
         IN <<least>> \o Ascending(S \ {least})

\* The Sections of a candidate: one per match of p in the text of its line
\* from its column on.
MatchSections(candidate, p, data) ==
    LET text == ViewLine(data, candidate.start.line).v
        target == SubSeq(text, candidate.start.index + 1, Len(text))
        starts == Ascending(MatchStarts(target, p))
    IN [j \in 1..Len(starts) |->
            [start |-> Place(candidate.start.line, candidate.start.index + starts[j]),
             length |-> [end |-> FALSE, n |-> Len(p)]]]

RECURSIVE AllMatchSections(_, _, _)
AllMatchSections(candidates, p, data) ==
    IF candidates = <<>> THEN <<>>
    ELSE MatchSections(Head(candidates), p, data)
         \o AllMatchSections(Tail(candidates), p, data)

\* The last feature of the sketch is `/` and a pattern.
PatternTyped ==
    /\ mode = "Filter"
    /\ Len(LastFeature(sketch)) >= 2
    /\ LastFeature(sketch)[1] = "/"

\* C10: with `/` and a pattern as the feature, the signals are, for each
\* noise in order, one Section per non-overlapping match of the pattern in
\* the noise's line from the noise's column on, at column + match offset
\* and of the length of the match; `/foo` on the line "xxfooyy" gives the
\* one Section of column 2 and length 3.
C10_PatternFilter ==
    PatternTyped =>
        /\ status = "running"
        /\ signals = AllMatchSections(noises, Tail(LastFeature(sketch)), view.data)
        /\ (/\ view.data = FooLine /\ sketch = <<"/", "f", "o", "o">>
            /\ noises = <<[start |-> Place(1, 0), length |-> [end |-> TRUE, n |-> 0]]>>)
              => signals = <<[start |-> Place(1, 2), length |-> [end |-> FALSE, n |-> 3]]>>

\* `/o` narrows the match of `/foo` in "xxfooyy": the candidate starts at
\* column 2 and has two matches.
C10_Witness ==
    /\ PatternTyped /\ status = "running"
    /\ view.data = FooLine
    /\ sketch = <<"/", "f", "o", "o", "&", "&", "/", "o">>
    /\ noises = <<[start |-> Place(1, 2), length |-> [end |-> FALSE, n |-> 3]]>>
    /\ Len(signals) = 2

-----------------------------------------------------------------------------
(* Properties of editing (checked under SpecEdit) *)

\* The mark's place and pointer denote the same location of the text.
SameLocation(mark, data) == PlacePointer(data, mark.place) = mark.pointer

\* The mark's place is a column of a line of the text, at the mark's pointer.
InText(mark, data) ==
    /\ ViewLine(data, mark.place.line).some
    /\ mark.place.index <= LineLength(data, mark.place)
    /\ SameLocation(mark, data)

\* An update_view call has just returned (it did not panic).
Edited(key) == hist.valid /\ hist.key = key /\ ~hist.panic

\* C1 (as claimed): after set_marks and after every Edit-mode keystroke,
\* every mark whose pointer is not None has the pointer of its place.
C1_OffsetInvariant ==
    (mode = "Edit" /\ status = "running") =>
        \A i \in 1..Len(marks) :
            marks[i].pointer.some => SameLocation(marks[i], view.data)

\* C2 (as claimed): a Backspace at a mark whose pointer is 0 raises no
\* error, leaves that mark as it was, and the text and the other marks
\* become what the keystroke makes of them without that mark.
C2_GuardAtStart ==
    (/\ hist.valid /\ hist.key = BACKSPACE
     /\ hist.marks /= <<>>
     /\ hist.marks[1].pointer = Some(0)) =>
        LET rest == UpdateMarks(Tail(hist.marks), hist.data, view.origin, BACKSPACE)
        IN  /\ ~hist.panic
            /\ marks[1] = hist.marks[1]
            /\ ~rest.panic => /\ view.data = rest.data
                              /\ Tail(marks) = rest.marks

\* C3 (as claimed): after Enter every mark is at column 0 of the line after
\* the one it was on once the earlier marks had broken theirs, and the
\* keystroke's class asks for a full redraw.
C3_LineBreak ==
    Edited(ENTER) =>
        /\ \A i \in 1..Len(marks) :
              marks[i].place = Place(hist.marks[i].place.line + (i - 1) + 1, 0)
        /\ hist.marks /= <<>> => hist.change = ChangeClear

\* C4 (as claimed): Backspace at a single mark at column 0 of line n >= 2
\* puts the mark on line n - 1 at the column that is the length line n - 1
\* had, removes the line break between the two lines and asks for a full
\* redraw.
C4_BackspaceMerge ==
    (/\ hist.valid /\ hist.key = BACKSPACE
     /\ Len(hist.marks) = 1
     /\ hist.marks[1].place.index = 0
     /\ hist.marks[1].place.line >= 2
     /\ SameLocation(hist.marks[1], hist.data)) =>
        LET old == hist.marks[1]
            before == Place(old.place.line - 1, 0)
        IN  /\ ~hist.panic
            /\ marks[1].place = Place(old.place.line - 1, LineLength(hist.data, before))
            /\ view.data = SubSeq(hist.data, 1, old.pointer.v - 1)
                           \o SubSeq(hist.data, old.pointer.v + 1, Len(hist.data))
            /\ hist.change = ChangeClear

\* C7 (as claimed): Backspace at a single mark at column >= 1 moves the
\* mark back by one in its line, removes the character before it and is of
\* class Backspace.
C7_BackspaceElsewhere ==
    (/\ hist.valid /\ hist.key = BACKSPACE
     /\ Len(hist.marks) = 1
     /\ hist.marks[1].place.index >= 1
     /\ SameLocation(hist.marks[1], hist.data)) =>
        LET old == hist.marks[1]
        IN  /\ ~hist.panic
            /\ marks[1].pointer = Some(old.pointer.v - 1)
            /\ marks[1].place = Place(old.place.line, old.place.index - 1)
            /\ view.data = SubSeq(hist.data, 1, old.pointer.v - 1)
                           \o SubSeq(hist.data, old.pointer.v + 1, Len(hist.data))
            /\ hist.change = ChangeBackspace


\* The state update_view's loop starts from at the last call.
LoopStart == LoopInit(hist.marks, hist.data, view.origin)

\* The last call inserted an ordinary character at two or more marks, the
\* first two on one line, the first left of the second.
TwoOnALine ==
    /\ hist.valid /\ hist.key \in EditChars
    /\ Len(hist.marks) >= 2
    /\ hist.marks[1].pointer.some /\ hist.marks[2].pointer.some
    /\ hist.marks[1].place.line = hist.marks[2].place.line
    /\ hist.marks[1].place.index < hist.marks[2].place.index

\* C5: with two marks on a line, the first left of the second, the insert
\* at the first mark moves the second by exactly one column and one offset
\* and leaves its line; with its own insert the second mark ends two
\* further.
C5_MultiCursorShift ==
    TwoOnALine =>
        LET second == hist.marks[2]
            first_done == MarkStep(LoopStart, 1, hist.key)
            shifted == MarkAdjust(second, first_done.adjustment)
        IN  /\ shifted.place = Place(second.place.line, second.place.index + 1)
            /\ shifted.pointer = Some(second.pointer.v + 1)
            /\ ~hist.panic =>
                  /\ marks[2].place = Place(second.place.line, second.place.index + 2)
                  /\ marks[2].pointer = Some(second.pointer.v + 2)

C5_Witness == TwoOnALine /\ ~hist.panic /\ Len(hist.marks) = 2

\* The text with c inserted at each of the first n offsets of ps (ascending).
RECURSIVE InsertedAt(_, _, _, _)
InsertedAt(data, ps, n, c) ==
    IF n = 0 THEN data
    ELSE InsertedAt(SubSeq(data, 1, ps[n]) \o <<c>> \o SubSeq(data, ps[n] + 1, Len(data)),
                    ps, n - 1, c)

\* The last call inserted an ordinary character at marks whose offsets are
\* distinct, ascending and within the text.
InsertAtAscending ==
    /\ hist.valid /\ hist.key \in EditChars
    /\ hist.marks /= <<>>
    /\ \A i \in 1..Len(hist.marks) :
          /\ hist.marks[i].pointer.some
          /\ hist.marks[i].pointer.v <= Len(hist.data)
          /\ i > 1 => hist.marks[i - 1].pointer.v < hist.marks[i].pointer.v

\* C6: an ordinary character typed at marks at ascending offsets is
\* inserted at each of those offsets of the text; each mark ends right
\* after its own character, its column advanced by the inserts on its line
\* so far, and the class is Insert of the character.
C6_InsertResult ==
    InsertAtAscending =>
        LET old == hist.marks
            offsets == [i \in 1..Len(old) |-> old[i].pointer.v]
            OnLine(i) == {j \in 1..i : old[j].place.line = old[i].place.line}
        IN  /\ ~hist.panic
            /\ view.data = InsertedAt(hist.data, offsets, Len(old), hist.key)
            /\ Len(marks) = Len(old)
            /\ \A i \in 1..Len(old) :
                  /\ marks[i].pointer = Some(offsets[i] + i)
                  /\ view.data[offsets[i] + i] = hist.key
                  /\ marks[i].place =
                        Place(old[i].place.line, old[i].place.index + Cardinality(OnLine(i)))
            /\ (\A i \in 1..Len(old) : InText(old[i], hist.data))
                  => \A i \in 1..Len(old) : InText(marks[i], view.data)
            /\ hist.change = ChangeInsert(hist.key)

C6_Witness ==
    /\ InsertAtAscending /\ ~hist.panic
    /\ Len(hist.marks) >= 2
    /\ hist.marks[1].place.line /= hist.marks[2].place.line

-----------------------------------------------------------------------------
(* Paper::filter_signals on its own: a document is loaded, the noises are a
   run of its whole-line Sections, and filter_signals is called once with a
   feature.  The sketch holds the feature of the call. *)

\* The numbers of the line filter tokens: one digit each, and one of two.
LineArgs == 0..MaxLineArg \cup {10}

LineToken(n) == <<"#">> \o Numeral(n)
RangeToken(a, b) == <<"#">> \o Numeral(a) \o <<".">> \o Numeral(b)
MovementToken(o, sign, d) == <<"#">> \o Numeral(o) \o <<sign>> \o Numeral(d)

\* Features that start with `#` and are no line filter token.
MalformedLineTokens ==
    {<<"#">>, <<"#", "3", ".">>, <<"#", "3", "+">>, <<"#", "x">>,
     <<"#", "2", ".", "4", "a", "b", "c">>, <<"#", ".", "2">>, <<"#", "1", "#", "2">>,
     <<"#", "1", "/", "a">>, <<"#", "2", "x">>, <<"#", "-", "1">>}

\* Features of the pattern filter, the empty pattern among them.
PatternFeatures ==
    {<<"/">>, <<"/", "a">>, <<"/", "b">>, <<"/", "b", "a">>, <<"/", "#", "1">>, <<"/", "/">>}

\* Features no filter is for.
OtherFeatures == {<<>>, <<"a">>, <<"a", "#", "1">>, <<"1">>, <<" ", "/", "a">>}

Features ==
    {LineToken(n) : n \in LineArgs}
    \cup {RangeToken(a, b) : a \in LineArgs, b \in LineArgs}
    \cup {MovementToken(o, sign, d) : o \in LineArgs, sign \in {"+", "-"}, d \in LineArgs}
    \cup MalformedLineTokens \cup PatternFeatures \cup OtherFeatures

\* The document of n lines: "a" on the odd lines, "ba" on the even ones.
RECURSIVE LinesDoc(_)
LinesDoc(n) ==
    IF n = 0 THEN <<>>
    ELSE LinesDoc(n - 1) \o (IF n % 2 = 1 THEN <<"a">> ELSE <<"b", "a">>) \o <<ENTER>>

\* A document is loaded; the noises are the Sections of its lines lo..hi.
InitSignals ==
    \E n \in 0..MaxLines : \E lo \in 1..(n + 1), hi \in 0..n :
        LET loaded == ChangeView([DefaultPaper(0) EXCEPT !.mode = "Filter"], LinesDoc(n))
        IN Is([loaded EXCEPT !.noises = SubSeq(loaded.noises, lo, hi)])

\* filter_signals is called with a feature.
FilterSignalsCall ==
    /\ input = ""
    /\ \E feature \in Features :
          Becomes([PaperFilterSignals(Paper, feature) EXCEPT
                       !.sketch = feature, !.input = "filter_signals"])

SpecSignals == InitSignals /\ [][FilterSignalsCall]_vars

-----------------------------------------------------------------------------
(* Properties of filter_signals (checked under SpecSignals) *)

\* filter_signals has been called with the feature.
Filtered(feature) == input = "filter_signals" /\ sketch = feature

\* The Sections of a working set whose start line is one of lo..hi.
OnLines(sections, lo, hi) ==
    LET Within(x) == lo <= x.start.line /\ x.start.line <= hi
    IN SelectSeq(sections, Within)

\* The noises are the whole-line Sections of every line of the document.
AllLines ==
    noises = [line \in 1..view.line_count |->
                 [start |-> Place(line, 0), length |-> [end |-> TRUE, n |-> 0]]]

\* C11 (as claimed): `/` with no pattern text empties the working set and
\* raises no error.
C11_EmptyPattern ==
    Filtered(<<"/">>) => (status = "running" /\ signals = <<>>)

\* C12: `#n` keeps exactly the Sections that start on line n, as they were
\* and in order: of the whole-line Sections of a document, the one of line n
\* when the document has a line n, none otherwise.
C12_LineExact ==
    \A n \in LineArgs :
        Filtered(LineToken(n)) =>
            /\ status = "running"
            /\ signals = OnLines(noises, n, n)
            /\ AllLines =>
                  signals = IF 1 <= n /\ n <= view.line_count
                            THEN <<[start |-> Place(n, 0), length |-> [end |-> TRUE, n |-> 0]]>>
                            ELSE <<>>

\* `#3` on the 5-line document, and `#10` on the 10-line one.
C12_Witness ==
    /\ AllLines
    /\ \/ Filtered(LineToken(3)) /\ view.line_count = 5 /\ Len(signals) = 1
       \/ Filtered(LineToken(10)) /\ view.line_count = 10 /\ Len(signals) = 1

\* C13: `#a.b` keeps exactly the Sections that start on the lines
\* min(a, b)..max(a, b), which is also what `#b.a` keeps.
C13_RangeSymmetry ==
    \A a \in LineArgs, b \in LineArgs :
        Filtered(RangeToken(a, b)) =>
            LET lo == IF a < b THEN a ELSE b
                hi == IF a < b THEN b ELSE a
            IN  /\ status = "running"
                /\ signals = OnLines(noises, lo, hi)
                /\ signals = FilterSignals(RangeToken(b, a), noises, view.data)

\* `#4.2` on a document of five lines or more keeps the lines 2, 3 and 4.
C13_Witness ==
    /\ Filtered(RangeToken(4, 2)) /\ AllLines /\ view.line_count >= 5
    /\ Len(signals) = 3 /\ signals[1].start.line = 2

\* C14: with d < o, `#o+d` keeps exactly the Sections that start on the
\* lines o..o+d and `#o-d` those that start on the lines o-d..o.
C14_Relative ==
    \A o \in LineArgs, d \in LineArgs :
        d < o =>
            /\ Filtered(MovementToken(o, "+", d)) =>
                  (status = "running" /\ signals = OnLines(noises, o, o + d))
            /\ Filtered(MovementToken(o, "-", d)) =>
                  (status = "running" /\ signals = OnLines(noises, o - d, o))

\* `#5-3` on a document of eight lines or more keeps the lines 2 to 5.
C14_Witness ==
    /\ Filtered(MovementToken(5, "-", 3)) /\ AllLines /\ view.line_count >= 8
    /\ Len(signals) = 4 /\ signals[1].start.line = 2

\* A run of one or more digits.
IsDigits(s) == s /= <<>> /\ \A i \in 1..Len(s) : s[i] \in Digits

\* The token is a line_spec after `#`: digits, digits '.' digits, or
\* digits ('+' | '-') digits.
Derivable(token) ==
    /\ token /= <<>> /\ token[1] = "#"
    /\ \/ IsDigits(Tail(token))
       \/ \E k \in 3..(Len(token) - 1) :
             /\ IsDigits(SubSeq(token, 2, k - 1))
             /\ token[k] \in {".", "+", "-"}
             /\ IsDigits(SubSeq(token, k + 1, Len(token)))

\* C15 (as claimed): a feature that starts with `#` and is no line_spec
\* leaves the signals equal to the noises and raises no error.
C15_MalformedLine ==
    (/\ input = "filter_signals"
     /\ sketch /= <<>> /\ sketch[1] = "#"
     /\ ~Derivable(sketch)) =>
        (status = "running" /\ signals = noises)

\* C16: the one filter applied is that of the feature's first character;
\* a feature that is empty or starts with another character leaves the
\* signals equal to the noises.
C16_SelectionPolicy ==
    input = "filter_signals" =>
        /\ status = "running"
        /\ signals =
              IF sketch = <<>> THEN noises
              ELSE IF sketch[1] = "#" THEN LineFilterExtract(sketch, noises)
              ELSE IF sketch[1] = "/" THEN PatternFilterExtract(sketch, noises, view.data)
              ELSE noises

\* `/#1` has been applied as a pattern: the line filter, which would keep
\* line 1, was not.
C16_Witness ==
    /\ Filtered(<<"/", "#", "1">>) /\ AllLines /\ view.line_count >= 1
    /\ signals = <<>>

-----------------------------------------------------------------------------
(* Narrowing by two features: a document is loaded, Filter mode entered
   with `#` or `/`, and a feature, Tab and a second feature typed without
   corrections. *)

NarrowDocs == SeqsUpTo(DocChars, MaxNarrowDocLen)

\* The features typed.
NarrowTokens ==
    {<<"#", "1">>, <<"#", "2">>, <<"/", "a">>, <<"/", "b">>, <<"/", "a", "b">>}

NarrowTexts == {s \o <<"&", "&">> \o t : s \in NarrowTokens, t \in NarrowTokens}

NarrowSketches == Prefixes(NarrowTexts)

\* The keys typed: no Backspace, and the separator only with Tab.
NarrowKeys == {ESC, ENTER, TAB, "#", "/", "1", "2", "a", "b"}

InitNarrow ==
    \E doc \in NarrowDocs, first \in {"#", "/"} :
        Is(RunInputs(DefaultPaper(0), LoadKeys \o <<first>>, ReadOk(doc)))

NarrowInput == FilterInputWith(NarrowKeys, NarrowSketches, MaxPatternSections)

SpecNarrow == InitNarrow /\ [][NarrowInput]_vars

-----------------------------------------------------------------------------
(* Properties of narrowing (checked under SpecNarrow) *)

\* What a feature makes of a working set: `#n` its Sections on line n, `/p`
\* the matches of p in each of its Sections.
Narrowed(token, sections) ==
    IF token[1] = "#"
    THEN OnLines(sections, DigitValue(token[2]), DigitValue(token[2]))
    ELSE AllMatchSections(sections, Tail(token), view.data)

\* The whole-line Sections of the document.
EveryLine ==
    [line \in 1..view.line_count |->
        [start |-> Place(line, 0), length |-> [end |-> TRUE, n |-> 0]]]

\* C17: Tab makes the signals of the feature before it the noises, so
\* with t1, Tab and t2 typed the noises are what t1 makes of the lines of
\* the document and the signals what t2 makes of those noises.
C17_SuccessiveNarrowing ==
    /\ [](mode = "Filter" =>
            \A t1 \in NarrowTokens :
                /\ (/\ Len(sketch) >= Len(t1) + 2
                    /\ SubSeq(sketch, 1, Len(t1) + 2) = t1 \o <<"&", "&">>)
                      => noises = Narrowed(t1, EveryLine)
                /\ \A t2 \in NarrowTokens :
                      sketch = t1 \o <<"&", "&">> \o t2
                          => signals = Narrowed(t2, Narrowed(t1, EveryLine)))
    /\ [][(mode = "Filter" /\ input' = TAB) => noises' = signals]_vars

\* `#2`, Tab and `/a` typed on a document whose two lines both have an
\* "a": the one signal is on line 2, where `/a` on all the lines has two.
C17_Witness ==
    /\ mode = "Filter" /\ status = "running"
    /\ sketch = <<"#", "2", "&", "&", "/", "a">>
    /\ Len(signals) = 1 /\ signals[1].start.line = 2
    /\ Len(Narrowed(<<"/", "a">>, EveryLine)) = 2

-----------------------------------------------------------------------------
(* Paper::set_marks on its own: a document is loaded, a filter typed and
   confirmed, and set_marks called, more than once, in Action mode. *)

\* The Edge of the keys of Action mode.
KeyEdge(key) == IF key = "i" THEN "Start" ELSE "End"

InitMarks ==
    \E doc \in EditDocs, text \in EditFilterTexts :
        Is(RunInputs(DefaultPaper(MaxMarkCalls), LoadKeys \o text \o <<ENTER>>, ReadOk(doc)))

\* set_marks is called with the Edge of a key.
SetMarksCall ==
    /\ status = "running" /\ mode = "Action" /\ edits > 0
    /\ \E key \in {"i", "I"} :
          Becomes([PaperSetMarks(Paper, KeyEdge(key)) EXCEPT
                       !.input = key, !.edits = edits - 1])

SpecMarks == InitMarks /\ [][SetMarksCall]_vars

-----------------------------------------------------------------------------
(* Properties of set_marks (checked under SpecMarks) *)

\* The offset of the first character of a line: the lengths of the lines
\* before it, each with its line break.
RECURSIVE LineOffset(_, _)
LineOffset(data, line) ==
    IF line = 1 THEN 0
    ELSE LineOffset(data, line - 1) + Len(Lines(data)[line - 1]) + 1

\* position_to_offset.
PositionToOffset(data, place) == LineOffset(data, place.line) + place.index

\* The length of a Section, ToLineEnd being the length of its line.
ResolvedLength(data, section) ==
    IF section.length.end THEN Len(Lines(data)[section.start.line])
    ELSE section.length.n

\* C18: set_marks makes one mark per signal, in order: at the start of the
\* signal for Start, at the start advanced by the resolved length for End,
\* and with the offset of that position.
C18_SetMarks ==
    (input \in {"i", "I"}) =>
        /\ status = "running"
        /\ Len(marks) = Len(signals)
        /\ \A k \in 1..Len(signals) :
              LET at == IF input = "i" THEN signals[k].start
                        ELSE Place(signals[k].start.line,
                                   signals[k].start.index
                                       + ResolvedLength(view.data, signals[k]))
              IN  /\ marks[k].place = at
                  /\ marks[k].pointer = [some |-> TRUE, v |-> PositionToOffset(view.data, at)]

\* set_marks(End) has put a mark after the text of a line that is not the
\* first.
C18_Witness ==
    /\ input = "I" /\ status = "running"
    /\ \E k \in 1..Len(marks) : marks[k].place.line >= 2 /\ marks[k].place.index >= 1

\* C19: a second set_marks(Start) on the signals and the text of the first
\* makes the marks the first made.
C19_Idempotent ==
    [][(input = "i" /\ input' = "i" /\ signals' = signals /\ view' = view)
          => marks' = marks]_vars

\* set_marks has been called twice, last with Start, on two or more
\* signals.
C19_Witness ==
    /\ input = "i" /\ edits = 0 /\ status = "running"
    /\ Len(signals) >= 2 /\ Len(marks) = Len(signals)

-----------------------------------------------------------------------------
(* change_view on its own (SpecSee): a document is on display, scrolled, and
   the command `see f` is typed; Paper::change_view is called once, on a
   file of any text *)

\* The texts the file of the `see` may hold, carriage returns among them.
SeeDocs ==
    SeqsUpTo({"a", CR, ENTER}, MaxSeeDocLen) \cup {LinesDoc(n) : n \in 0..MaxSeeFileLines}

\* What reading the file gives.
SeeReads == {ReadOk(t) : t \in SeeDocs} \cup {NoRead}

\* `j` typed n times.
ScrollKeys(n) == [i \in 1..n |-> "j"]

\* A document of up to MaxSeeLines lines is loaded and scrolled down, then
\* `.see f` is typed.
InitSee ==
    \E n \in 0..MaxSeeLines, k \in 0..MaxSeeLines :
        Is(RunInputs(DefaultPaper(0),
                     LoadKeys \o ScrollKeys(k) \o <<".">> \o SeeCommand \o <<"f">>,
                     ReadOk(LinesDoc(n))))

\* Paper::change_view is called with the path of the `see`: the read fails
\* and with_file panics, or the view and the noises are replaced.  The
\* history records the text read.
ChangeViewCall ==
    /\ status = "running" /\ mode = "Command" /\ IsSee(sketch) /\ input = "f"
    /\ \E read \in SeeReads :
          Becomes(IF read.ok
                  THEN [ChangeView(Paper, read.text) EXCEPT
                            !.input = "change_view", !.hist.read = Some(read.text)]
                  ELSE [Paper EXCEPT !.input = "change_view", !.status = "panicked"])

SpecSee == InitSee /\ [][ChangeViewCall]_vars

-----------------------------------------------------------------------------
(* Properties of `see` (checked under SpecSee) *)

\* change_view has been called and the file was read.
Seen == status = "running" /\ input = "change_view" /\ hist.read.some

\* The number of lines of a text: its line feeds, and one more for a last
\* line that no line feed ends.
LineTotal(text) ==
    Cardinality({i \in 1..Len(text) : text[i] = ENTER})
        + (IF text /= <<>> /\ text[Len(text)] /= ENTER THEN 1 ELSE 0)

\* The marks are cleared, the display starts at the first line and the
\* candidates are one whole-line Section per line of the document.
SeeResets ==
    /\ marks = <<>>
    /\ view.origin.line = 1
    /\ Len(noises) = LineTotal(view.data)
    /\ \A i \in 1..Len(noises) :
          noises[i] = [start |-> Place(i, 0), length |-> [end |-> TRUE, n |-> 0]]

C21_ReadFailure ==
    [][(input' = "change_view" /\ ~hist'.read.some) =>
          (status' = "running" /\ view' = view /\ marks' = marks /\ mode' = mode)]_vars

-----------------------------------------------------------------------------
(* scroll on its own (SpecScroll): a document is on display and Paper::scroll
   is called with any movement, any number of times *)

Movements == (-MaxMovement)..MaxMovement

\* A document of up to MaxScrollLines lines is loaded.
InitScroll ==
    \E n \in 0..MaxScrollLines :
        Is(RunInputs(DefaultPaper(0), LoadKeys, ReadOk(LinesDoc(n))))

\* Paper::scroll is called.  The history records the movement.
ScrollCall ==
    /\ status = "running" /\ mode = "Display"
    /\ \E movement \in Movements :
          Becomes([PaperScroll(Paper, movement) EXCEPT
                       !.input = "scroll", !.hist.movement = movement])

SpecScroll == InitScroll /\ [][ScrollCall]_vars

-----------------------------------------------------------------------------
(* Properties of scroll (checked under SpecScroll) *)

\* The last line the origin may be on: the last line of the document, the
\* first where it has none.
LastOrigin == IF view.line_count = 0 THEN 1 ELSE view.line_count

\* C22: the origin is never before the first line nor after the last line
\* of the document (it is on the first where the document is empty), and a
\* scroll moves it by the movement, stopping at the first and last lines.
C22_ScrollClamped ==
    /\ [](view.origin.line >= 1 /\ view.origin.line <= LastOrigin
           /\ view.origin.line - 1 <= view.line_count)
    /\ [][input' = "scroll" =>
            LET want == view.origin.line + hist'.movement
            IN  /\ view'.origin.line =
                      (IF want < 1 THEN 1 ELSE IF want > LastOrigin THEN LastOrigin ELSE want)
                /\ view'.data = view.data /\ view'.line_count = view.line_count]_vars

\* A scroll down by more than the document has lines has stopped at the
\* last line of a document of three or more.
C22_Witness ==
    /\ input = "scroll" /\ hist.movement > view.line_count
    /\ view.line_count >= 3 /\ view.origin.line = view.line_count

-----------------------------------------------------------------------------
(* Properties of rendering (checked under SpecSee) *)

\* The texts of the Row Edits among the Edits es, in order.
RowsOf(es) ==
    LET IsRow(e) == e.change.kind = "Row"
        rows == SelectSeq(es, IsRow)
    IN  [i \in 1..Len(rows) |-> rows[i].change.c]

\* The lines joined, a line feed after each.
RECURSIVE JoinLines(_)
JoinLines(ls) ==
    IF ls = <<>> THEN <<>> ELSE Head(ls) \o <<ENTER>> \o JoinLines(Tail(ls))

\* The text, a line feed added where its last line has none.
Terminated(text) ==
    IF text /= <<>> /\ text[Len(text)] /= ENTER THEN text \o <<ENTER>> ELSE text

\* The text with each carriage return that a line feed follows taken away:
\* the pair is one line break.
RECURSIVE CrlfAsBreak(_)
CrlfAsBreak(text) ==
    IF text = <<>> THEN <<>>
    ELSE IF Len(text) >= 2 /\ text[1] = CR /\ text[2] = ENTER THEN CrlfAsBreak(Tail(text))
    ELSE <<text[1]>> \o CrlfAsBreak(Tail(text))

\* The number of digits of n.
DigitCount(n) == IF n < 10 THEN 1 ELSE IF n < 100 THEN 2 ELSE 3

\* rows are the lines of text in order: row i is the number i, spaces
\* before it up to the digits of the number of lines, a space, and a text
\* without line feed; the texts joined by line feeds are text.
RowsAreLinesOf(rows, text) ==
    LET width == DigitCount(Len(rows))
        body(i) == SubSeq(rows[i], width + 2, Len(rows[i]))
    IN  /\ Len(rows) = LineTotal(text)
        /\ \A i \in 1..Len(rows) :
              /\ Len(rows[i]) >= width + 1
              /\ rows[i][width + 1] = " "
              /\ \A k \in 1..width :
                    rows[i][k] = (IF k <= width - DigitCount(i) THEN " "
                                  ELSE Numeral(i)[k - (width - DigitCount(i))])
              /\ \A k \in 1..Len(body(i)) : body(i)[k] /= ENTER
        /\ JoinLines([i \in 1..Len(rows) |-> body(i)]) = Terminated(text)

\* C23 (as claimed): after a load of T the rows of the rendering are T's
\* lines in order, each the line number padded to the gutter, a separator
\* and the unmodified text of the line.
C23_RoundTripAsClaimed ==
    Seen => RowsAreLinesOf(RowsOf(RedrawEdits(view)), CrlfAsBreak(hist.read.v))

\* C23 (amended): the rows are the lines of T without its carriage
\* returns, which is the buffer; row i is on screen row i - 1, after one
\* Edit that clears the screen; display_view applies the first grid_height
\* of these Edits.
C23_RoundTrip ==
    Seen =>
        LET redraw == RedrawEdits(view)
            shown == DisplayView(Paper)
        IN  /\ RowsAreLinesOf(RowsOf(redraw), view.data)
            /\ Len(redraw) = LineTotal(view.data) + 1
            /\ redraw[1].change.kind = "Clear"
            /\ \A i \in 2..Len(redraw) :
                  redraw[i].change.kind = "Row" /\ redraw[i].region.start = [row |-> i - 2, column |-> 0]
            /\ Len(shown) <= GridHeight
            /\ \A i \in 1..Len(redraw) : i <= GridHeight => (i <= Len(shown) /\ shown[i] = redraw[i])

\* A file of ten or more lines has been loaded: the numbers of its first
\* lines are padded.
C23_Witness ==
    /\ Seen /\ view.line_count >= 10
    /\ Len(RowsOf(RedrawEdits(view))) >= 10
    /\ RowsOf(RedrawEdits(view))[2][1] = " "

-----------------------------------------------------------------------------
(* Editing under a scrolled origin (SpecDraw): a document is loaded and
   scrolled down, a filter typed and confirmed, Edit mode entered; then the
   Edit-mode keystrokes *)

\* The filters typed before the edit.
DrawFilterTexts ==
    {LineToken(n) : n \in 1..MaxDrawLines}
        \cup {RangeToken(1, MaxDrawLines), <<"/", "a">>}

\* The documents: lines "a" and "ba" in turn, and one whose first line has
\* its "a" after the start and whose second has it at the start.
DrawDocs ==
    {LinesDoc(n) : n \in 1..MaxDrawLines} \cup {<<"b", "a", ENTER, "a", ENTER>>}

\* A document is loaded and scrolled down up to MaxDrawLines times, a
\* filter typed and confirmed, and Edit mode entered at the start (i) or
\* the end (I) of the signals.
InitDraw ==
    \E doc \in DrawDocs, k \in 0..MaxDrawLines :
        \E text \in DrawFilterTexts, edge \in {"i", "I"} :
            Is(RunInputs(DefaultPaper(MaxDrawEdits),
                         LoadKeys \o ScrollKeys(k) \o text \o <<ENTER, edge>>,
                         ReadOk(doc)))

SpecDraw == InitDraw /\ [][EditInput]_vars

-----------------------------------------------------------------------------
(* Properties of the Edits of update_view (checked under SpecDraw) *)

\* The columns left of the text of a row: those of the line number, as
\* many as the number of lines has digits, and the separator.
Gutter == (IF view.line_count = 0 THEN 0 ELSE DigitCount(view.line_count)) + 1

\* The Address of a Place is as C24 says: none when the Place is on a line
\* before the origin's, else the row is the line's distance from the
\* origin's and the column the index moved right by the gutter.
AddressAsSaid(place) ==
    LET address == PlaceToAddress(place, view.origin)
    IN  /\ ~address.some <=> place.line < view.origin.line
        /\ address.some =>
              /\ address.v.row = place.line - view.origin.line
              /\ address.v.column = place.index + Gutter

\* C24: the Address of a Place against the origin is "not visible" if and
\* only if the Place's line is before the origin's; otherwise its row is
\* the Place's line minus the origin's and its column the Place's index
\* moved right by the gutter.  So for the marks, the starts of the signals
\* and of the noises; a Section's Region is at the Address of its start.
C24_ToAddress ==
    /\ \A k \in 1..Len(marks) : AddressAsSaid(marks[k].place)
    /\ \A k \in 1..Len(signals) :
          /\ AddressAsSaid(signals[k].start)
          /\ LET region == SectionToRegion(signals[k], view.origin)
                 address == PlaceToAddress(signals[k].start, view.origin)
             IN  /\ region.some <=> address.some
                 /\ region.some =>
                       region.v = [start |-> address.v, length |-> signals[k].length]
    /\ \A k \in 1..Len(noises) : AddressAsSaid(noises[k].start)

\* An edit is under way with a mark before the origin and a mark after the
\* origin's line.
C24_Witness ==
    /\ mode = "Edit" /\ hist.valid /\ ~hist.panic
    /\ \E k \in 1..Len(marks) : marks[k].place.line < view.origin.line
    /\ \E k \in 1..Len(marks) :
          marks[k].place.line > view.origin.line /\ marks[k].place.index >= 1

\* update_view has returned from the keystroke hist.key.
Updated == hist.valid /\ ~hist.panic

\* The k-th mark's edit in the last keystroke is of the LineBreak class:
\* the key is Enter, or Backspace with the mark at the start of its line.
LineBreakAt(k) ==
    \/ hist.key = ENTER
    \/ hist.key = BACKSPACE /\ hist.marks[k].place.index = 0

AnyLineBreak == \E k \in 1..Len(hist.marks) : LineBreakAt(k)

\* C28: update_view cleans the view (line_count and the gutter are those of
\* the text) and redraws it if and only if one or more marks' edits in the
\* keystroke are of the LineBreak class, wherever those marks are in the
\* order; otherwise line_count and the origin stay as they were and
\* nothing is redrawn.
C28_RedrawOnLineBreak ==
    /\ [](Updated =>
            /\ hist.cleaned <=> AnyLineBreak
            /\ \A k \in 1..Len(hist.marks) :
                  LineBreakAt(k) <=> hist.changes[k] = ChangeClear
            /\ hist.cleaned <=> hist.redraw /= <<>>
            /\ hist.cleaned =>
                  /\ view.line_count = LineTotal(view.data)
                  /\ view.origin.index = -Gutter
                  /\ hist.redraw = DisplayView(Paper))
    /\ [][(hist'.valid /\ ~hist'.panic /\ ~hist'.cleaned) =>
             (view'.line_count = view.line_count /\ view'.origin = view.origin)]_vars

\* A Backspace with a mark at the start of its line and a later mark that
\* is not: the last mark's edit is not of the LineBreak class.
C28_Witness ==
    /\ Updated /\ hist.key = BACKSPACE /\ hist.cleaned
    /\ Len(hist.marks) >= 2
    /\ LineBreakAt(1) /\ ~LineBreakAt(Len(hist.marks))

\* The marks of the last keystroke that were on the screen, in order.
VisibleMarks ==
    LET OnScreen(mark) == mark.place.line >= view.origin.line
    IN  SelectSeq(hist.marks, OnScreen)

\* C29 (as claimed): Edits are applied for single marks only in a keystroke
\* in which no mark's edit is of the LineBreak class; in such a keystroke
\* there is exactly one per mark on the screen, at the mark's Region, of
\* the character typed or removed, and none for a mark that is not.
C29_IncrementalEdits ==
    Updated =>
        /\ AnyLineBreak => hist.applied = <<>>
        /\ ~AnyLineBreak =>
              /\ Len(hist.applied) = Len(VisibleMarks)
              /\ \A k \in 1..Len(VisibleMarks) :
                    /\ hist.applied[k].region =
                          [start |-> [row |-> VisibleMarks[k].place.line - view.origin.line,
                                      column |-> VisibleMarks[k].place.index + Gutter],
                           length |-> [end |-> FALSE, n |-> 1]]
                    /\ hist.applied[k].change =
                          (IF hist.key = BACKSPACE THEN ChangeBackspace
                           ELSE ChangeInsert(hist.key))

-----------------------------------------------------------------------------
(* Pointer arithmetic on its own (SpecPointer): the application has one
   mark, and an operation of its Pointer is called with any operand *)

\* The operations: Add<usize>, SubAssign<usize>, AddAssign<isize>.
PointerOps == {"add", "sub_assign", "add_assign"}

\* The operands of an operation.
Operands(op) == IF op = "add_assign" THEN (-MaxOperand)..MaxOperand ELSE 0..MaxOperand

\* What the operation comes to.
PointerOutcomes(op, pointer, other) ==
    CASE op = "add" -> PointerPlus(pointer, other)
      [] op = "sub_assign" -> PointerSubAssign(pointer, other)
      [] op = "add_assign" -> PointerAddAssign(pointer, other)

\* One mark, its Pointer None or up to MaxPointer.
InitPointer ==
    \E pointer \in {None} \cup {Some(n) : n \in 0..MaxPointer} :
        Is([DefaultPaper(MaxPointerCalls) EXCEPT
                !.marks = <<[place |-> Place(1, 0), pointer |-> pointer]>>])

\* An operation is called on the Pointer of the mark.  The history records
\* the operand.
PointerCall ==
    /\ status = "running" /\ edits > 0 /\ Len(marks) = 1
    /\ \E op \in PointerOps :
          \E other \in Operands(op) :
              \E out \in PointerOutcomes(op, marks[1].pointer, other) :
                  Becomes([Paper EXCEPT
                               !.marks[1].pointer = IF out.panic THEN @ ELSE out.pointer,
                               !.status = IF out.panic THEN "panicked" ELSE "running",
                               !.input = op,
                               !.hist.movement = other,
                               !.edits = edits - 1])

SpecPointer == InitPointer /\ [][PointerCall]_vars

-----------------------------------------------------------------------------
(* Properties of Pointer arithmetic (checked under SpecPointer) *)

\* C25 (as claimed): an operation on a Pointer that is None gives None, and
\* no operation panics or wraps around, whatever the operand: the Pointer
\* it gives, if any, is the sum or the difference.
C25_PointerTotal ==
    [][(input' \in PointerOps) =>
          /\ status' = "running"
          /\ ~marks[1].pointer.some => ~marks'[1].pointer.some
          /\ (marks[1].pointer.some /\ marks'[1].pointer.some) =>
                marks'[1].pointer.v =
                    marks[1].pointer.v
                        + (IF input' = "sub_assign" THEN -hist'.movement
                           ELSE hist'.movement)]_vars

-----------------------------------------------------------------------------
(* Properties of the Filter-mode keys (checked under SpecFilter) *)

\* The highlight of the next state is the one of its sketch: the matches
\* of the pattern of the last feature in the noises, or the noises where
\* the last feature has no pattern.
HighlightRecomputed ==
    LET feature == LastFeature(sketch')
    IN  signals' = (IF Len(feature) >= 2 /\ feature[1] = "/"
                    THEN AllMatchSections(noises', Tail(feature), view'.data)
                    ELSE noises')

\* C26 (as claimed): in Filter mode every key but Enter and Escape, Tab and
\* Backspace among them, is appended to the sketch as typed; the mode stays
\* Filter and the highlight is recomputed.
C26_OtherKeysAppended ==
    [][(mode = "Filter" /\ input' \notin {ENTER, ESC}) =>
          /\ sketch' = Append(sketch, input')
          /\ mode' = "Filter"
          /\ HighlightRecomputed]_vars

\* C26 (amended): in Filter mode every key but Enter, Escape, Tab and
\* Backspace is appended to the sketch as typed; Backspace takes the last
\* character off the sketch; Tab makes the signals the noises and appends
\* "&&".  The mode stays Filter and the highlight is recomputed.
C26_FilterKeys ==
    [][(mode = "Filter" /\ input' \notin {ENTER, ESC}) =>
          /\ mode' = "Filter"
          /\ status' = "running"
          /\ HighlightRecomputed
          /\ view' = view
          /\ CASE input' = BACKSPACE ->
                    /\ sketch' = SubSeq(sketch, 1, Len(sketch) - 1)
                    /\ noises' = noises
                [] input' = TAB ->
                    /\ sketch' = sketch \o <<"&", "&">>
                    /\ noises' = signals
                [] OTHER ->
                    /\ sketch' = Append(sketch, input')
                    /\ noises' = noises]_vars

\* Backspace has been typed after a Tab and a character; it left a sketch
\* that ends with a feature.
C26_Witness ==
    /\ mode = "Filter" /\ input = BACKSPACE /\ status = "running"
    /\ Len(sketch) >= 5
    /\ SubSeq(sketch, Len(sketch) - 2, Len(sketch) - 1) = <<"&", "&">>

-----------------------------------------------------------------------------
(* Filter mode entered again (SpecReenter): a document is loaded and a
   Filter session with a Tab has ended, by Escape or through Action and
   Edit; then the inputs of the modes, no edit being made *)

\* The keys of the first session after the key that enters Filter mode: a
\* feature, Tab, perhaps a second feature, and the way back to Display.
FirstSessions ==
    {Tail(first) \o <<TAB>> \o second \o leave :
        first \in NarrowTokens,
        second \in {<<>>} \cup NarrowTokens,
        leave \in {<<ESC>>, <<ENTER, ESC>>, <<ENTER, "i", ESC>>, <<ENTER, "I", ESC>>}}

\* The state after the first session on a document.
InitReenter ==
    \E doc \in NarrowDocs, first \in {"#", "/"} :
        \E keys \in {k \in FirstSessions : \E t \in NarrowTokens :
                          t[1] = first /\ Tail(t) = SubSeq(k, 1, Len(t) - 1)} :
            Is(RunInputs(DefaultPaper(0), LoadKeys \o <<first>> \o keys, ReadOk(doc)))

ReenterNext == DisplayInput \/ NarrowInput \/ ActionInput \/ EditInput

SpecReenter == InitReenter /\ [][ReenterNext]_vars

-----------------------------------------------------------------------------
(* Properties of entering Filter mode again (checked under SpecReenter) *)

\* The noises are one whole-line Section per line of the text, in order.
WholeLines(sections, text) ==
    /\ Len(sections) = LineTotal(text)
    /\ \A i \in 1..Len(sections) :
          sections[i] = [start |-> Place(i, 0), length |-> [end |-> TRUE, n |-> 0]]

-----------------------------------------------------------------------------
(* Properties of the run loop (checked under Spec) *)

\* An operation executed unless the run has ended.
ExecuteRunning(q, o, read) == IF q.status /= "running" THEN q ELSE Execute(q, o, read)

\* The application after the first k operations of a list, one after the
\* other from the left.
RECURSIVE AfterOps(_, _, _, _)
AfterOps(p, ops, k, read) ==
    IF k = 0 THEN p
    ELSE ExecuteRunning(AfterOps(p, ops, k - 1, read), ops[k], read)

\* The application after the operations of the mode of p for the key.
AfterInput(p, key, read) ==
    Enhance(AfterOps([p EXCEPT !.hist = NoHist, !.input = key],
                     ProcessInput(p.mode, key), Len(ProcessInput(p.mode, key)), read))

\* C30: the state in which the next input is read is the state after all
\* the operations of the list of the input before it, executed in list
\* order from the left, the list being the one of the mode in effect when
\* that input was read even if an operation of the list changes the mode:
\* `#` or `/` in Display mode changes to Filter mode and then adds the key
\* to the sketch.
C30_RunLoopAtomic ==
    [][
        /\ \E read \in (IF mode = "Command" /\ input' = ENTER THEN FileReads ELSE {NoRead}) :
              Paper' = AfterInput(Paper, input', read)
        /\ ((mode = "Display" /\ input' \in {"#", "/"}) =>
               (mode' = "Filter" /\ sketch' = <<input'>>))
    ]_vars

\* `#` has been read in Display mode: the mode is Filter and the sketch
\* holds the key.
C30_Witness ==
    mode = "Filter" /\ input = "#" /\ sketch = <<"#">> /\ status = "running"

-----------------------------------------------------------------------------
(* The terminal on its own (SpecTerminal): init is called once, with or
   without a file; keys are pressed; input is called after init *)

\* The file of the Settings: none, or the one of the command line.
FileSettings == {None, Some("f")}

\* The application calls init.
InitCall ==
    /\ ~terminal.called
    /\ \E file \in FileSettings :
          \E t \in TerminalInit(terminal, file) : terminal' = t
    /\ UNCHANGED <<mode, sketch, view, noises, signals, marks, status, edits, input, hist,
                   change_filter>>

\* The user presses a key.
KeyEvent ==
    /\ Len(terminal.keys) < MaxKeyEvents
    /\ \E key \in {"a", ENTER} : terminal' = [terminal EXCEPT !.keys = Append(@, key)]
    /\ UNCHANGED <<mode, sketch, view, noises, signals, marks, status, edits, input, hist,
                   change_filter>>

\* The application calls input, init having succeeded.
InputCall ==
    /\ terminal.is_init
    /\ Len(terminal.returned) < MaxInputCalls
    /\ \E t \in TerminalInput(terminal) : terminal' = t
    /\ UNCHANGED <<mode, sketch, view, noises, signals, marks, status, edits, input, hist,
                   change_filter>>

TerminalNext == InitCall \/ KeyEvent \/ InputCall

SpecTerminal == Init /\ [][TerminalNext]_vars

-----------------------------------------------------------------------------
(* Properties of the terminal's inputs (checked under SpecTerminal) *)

\* The calls of input that returned a configuration.
ConfigReturns ==
    {i \in 1..Len(terminal.returned) : terminal.returned[i].kind = "Config"}

\* C31: with a file argument the first input returned after init is the
\* configuration of that file, returned before the keyboard is polled, and
\* no later input is a configuration; without a file argument no input is
\* a configuration.
C31_FileInputFirst ==
    /\ []((terminal.file.some /\ terminal.returned /= <<>>) =>
            (terminal.returned[1] = ConfigInput(terminal.file.v) /\ ConfigReturns = {1}))
    /\ [](~terminal.file.some => ConfigReturns = {})
    /\ [][(terminal.file.some /\ terminal.returned = <<>> /\ terminal'.returned /= <<>>) =>
             (terminal'.polls = 0 /\ terminal'.keys = terminal.keys)]_vars

\* A key was pending when input returned the file; input has been called
\* again and has returned the key.
C31_Witness ==
    /\ terminal.file.some /\ Len(terminal.returned) >= 2
    /\ terminal.returned[1].kind = "Config" /\ terminal.returned[2].kind = "User"
    /\ terminal.polls = 1

-----------------------------------------------------------------------------
(* Properties of the view after a keystroke (checked under SpecEdit) *)

\* C32 (as claimed): after every Edit-mode keystroke the line_count of the
\* view is the number of lines of its text.
C32_LineCountTrue ==
    (hist.valid /\ status = "running") => view.line_count = Len(Lines(view.data))

-----------------------------------------------------------------------------
(* Properties of the order of the signals (checked under SpecNarrow) *)

\* Place a is before Place b in the document.
Before(a, b) == a.line < b.line \/ (a.line = b.line /\ a.index < b.index)

\* C33 (as claimed): whatever chain of features is typed, the signals are
\* in strictly increasing document order, no two of them at one Place.
C33_SignalsOrdered ==
    \A i \in 1..Len(signals) : \A j \in 1..Len(signals) :
        i < j => Before(signals[i].start, signals[j].start)

-----------------------------------------------------------------------------
(* Properties of the Sections of the working set (checked under Spec) *)

\* The Section starts on a line of the text of the view.
OnLine(section) ==
    /\ section.start.line >= 1
    /\ section.start.line <= view.line_count
    /\ section.start.line <= Len(Lines(view.data))

\* C34 (as claimed): at every point of a run every noise and every signal
\* starts on a line that the text has.
C34_SectionsOnLines ==
    status = "running" =>
        /\ \A i \in 1..Len(noises) : OnLine(noises[i])
        /\ \A i \in 1..Len(signals) : OnLine(signals[i])

-----------------------------------------------------------------------------
(* Properties of what a feature keeps (checked under SpecNarrow) *)

\* Section inner lies within Section outer: on its line, from its start
\* on, and no further than its end.
LiesWithin(inner, outer) ==
    /\ inner.start.line = outer.start.line
    /\ inner.start.index >= outer.start.index
    /\ \/ outer.length.end
       \/ /\ ~inner.length.end
          /\ inner.start.index + inner.length.n <= outer.start.index + outer.length.n

\* C35 (as claimed): every Section a feature gives lies within one of the
\* Sections it was applied to, whether those are whole lines or the matches
\* of an earlier pattern.
C35_NeverWidens ==
    (mode = "Filter" /\ status = "running") =>
        \A i \in 1..Len(signals) : \E j \in 1..Len(noises) : LiesWithin(signals[i], noises[j])

-----------------------------------------------------------------------------
(* Properties of a movement below the first line (checked under SpecSignals) *)

\* C36 (as claimed): with d > o, `#o-d` keeps no Section of a line after
\* line o: the range does not wrap around.
C36_NoWrap ==
    \A o \in LineArgs, d \in LineArgs :
        (d > o /\ Filtered(MovementToken(o, "-", d))) =>
            (status = "running" /\ \A i \in 1..Len(signals) : signals[i].start.line <= o)

-----------------------------------------------------------------------------
(* The ChangeFilter on its own (SpecConfig): the config file is written and
   other events arrive while can_consume and consume are called *)

InitConfig ==
    /\ IsPaper(DefaultPaper(0))
    /\ terminal = DefaultTerminal
    /\ \E file \in ConfigFiles, watching \in BOOLEAN :
          change_filter = ChangeFilterNew(file, watching)

\* The rest of the state, which the ChangeFilter leaves alone.
ConfigUnchanged ==
    UNCHANGED <<mode, sketch, view, noises, signals, marks, status, edits, input, hist,
                terminal>>

\* The config file is written: the watcher, if there is one, sends a Write.
FileWrite ==
    /\ change_filter.written < MaxConfigEvents
    /\ \E file \in ConfigFiles :
          change_filter' = [change_filter EXCEPT
                                !.file = file, !.written = @ + 1,
                                !.events = IF change_filter.watching
                                           THEN Append(@, "Write") ELSE @]
    /\ ConfigUnchanged

\* The watcher sends an event that is no Write.
OtherEvent ==
    /\ change_filter.watching /\ change_filter.written < MaxConfigEvents
    /\ change_filter' = [change_filter EXCEPT !.written = @ + 1,
                                             !.events = Append(@, "Other")]
    /\ ConfigUnchanged

\* can_consume or consume is called.
ConsumerCall ==
    /\ change_filter.call = "" /\ change_filter.calls < MaxConsumerCalls
    /\ \E call \in {"can_consume", "consume"} :
          change_filter' = [change_filter EXCEPT !.call = call, !.calls = @ + 1]
    /\ ConfigUnchanged

\* The call in progress processes the next event.
ProcessStep ==
    /\ change_filter.call /= "" /\ change_filter.events /= <<>>
    /\ change_filter' = ProcessEvent(change_filter)
    /\ ConfigUnchanged

\* The call in progress finds no event left and returns.
ConsumerReturn ==
    /\ change_filter.call /= "" /\ change_filter.events = <<>>
    /\ change_filter' = (IF change_filter.call = "can_consume"
                         THEN CanConsumeReturn(change_filter)
                         ELSE ConsumeReturn(change_filter))
    /\ ConfigUnchanged

ConfigNext == FileWrite \/ OtherEvent \/ ConsumerCall \/ ProcessStep \/ ConsumerReturn

SpecConfig == InitConfig /\ [][ConfigNext]_vars

-----------------------------------------------------------------------------
(* Properties of the ChangeFilter (checked under SpecConfig) *)

\* The settings of a kind among settings, in order.
OfKind(settings, kind) ==
    LET IsKind(setting) == setting.kind = kind
    IN  SelectSeq(settings, IsKind)

\* The Wrap settings produced so far, in order.
WrapsProduced == OfKind(change_filter.produced, "Wrap")

\* The settings produced by the step: those of the next state after those
\* of this one.
NewlyProduced ==
    SubSeq(change_filter'.produced, Len(change_filter.produced) + 1,
           Len(change_filter'.produced))

\* An event has been processed by the step, a Write if the file was read.
EventProcessed == Len(change_filter'.events) < Len(change_filter.events)

\* C37: whatever the order of writes, other events and calls, processing
\* an event produces a Wrap setting exactly when the wrap read differs from
\* the one stored, a log-level setting exactly when the level does, each
\* with the value read, and so nothing for a write that changes neither;
\* the config stored afterwards is the one read; no other step produces a
\* setting; and no two Wrap settings produced one after the other carry
\* the same value.
C37_OnlyChanges ==
    /\ [][IF EventProcessed /\ change_filter'.read.some
          THEN /\ OfKind(NewlyProduced, "Wrap") =
                     (IF change_filter'.read.v.wrap /= change_filter.config.wrap
                      THEN <<Wrap(change_filter'.read.v.wrap)>> ELSE <<>>)
               /\ OfKind(NewlyProduced, "StarshipLog") =
                     (IF change_filter'.read.v.starship_log
                            /= change_filter.config.starship_log
                      THEN <<StarshipLog(change_filter'.read.v.starship_log)>> ELSE <<>>)
               /\ \A i \in 1..Len(NewlyProduced) :
                     NewlyProduced[i].kind \in {"Wrap", "StarshipLog"}
               /\ change_filter'.config = change_filter'.read.v
          ELSE /\ change_filter'.produced = change_filter.produced
               /\ change_filter'.config = change_filter.config
         ]_vars
    /\ [](\A i \in 1..(Len(WrapsProduced) - 1) :
             WrapsProduced[i].v /= WrapsProduced[i + 1].v)

\* Three writes have been processed: the first and the last changed the
\* wrap, the one between them changed nothing, and two Wrap settings have
\* been produced.
C37_Witness ==
    /\ change_filter.written = 3 /\ change_filter.events = <<>>
    /\ Len(WrapsProduced) = 2 /\ Len(change_filter.produced) = 2
    /\ change_filter.read = Some(change_filter.config)

====
